---- MODULE Spec2Model ----
(***************************************************************************)
(* Model of kongken/datasrv: the relational adapter (PostgresDAO over the  *)
(* ent schema), the GitHub ingestion service (GitHubService), the          *)
(* application lifecycle (App.Close) and the document-store IssueDAO.      *)
(*                                                                         *)
(* The database is a record of tables.  An entity table is a bag of rows   *)
(* (SQL tables are multisets; that ids are unique is what the primary key  *)
(* check of an INSERT enforces), a join table a set of id pairs.  Primary  *)
(* keys and foreign keys are the constraints the ent schema declares; a    *)
(* statement that breaks one fails with a constraint error.                *)
(***************************************************************************)
EXTENDS Integers, Sequences, FiniteSets, Bags, TLC

\* ------------------------------------------------------------------ values

\* A nil pointer in a model / SQL NULL in a nillable column (no id and no
\* time has this value).
Null == -1

\* The zero value of an int64 id: "no creator" in IssueModel.UserID.
NoID == 0

\* ------------------------------------------------------------------ bounds

\* Number of top-level calls in one behaviour.
MaxOps == 3

IssueIDs == {1, 2}
UserIDs == {1}
LabelIDs == {1}
MilestoneIDs == {1}
Texts == {"a", "b"}
Times == {1}
OptTimes == {Null} \cup Times

\* ------------------------------------------------------------------ models

\* The values of IssueModel.State that the store is written with.
States == {"open", "closed"}

\* dao.IssueModel.  Title stands for the scalars that every write path copies
\* with a plain Set call and no read path filters on (Title, Body, Comments,
\* HTMLURL, Locked, UpdatedAt); Labels and Assignees are the id slices, read
\* as sets.
CreatedTimes == {1, 2}
AllIssueModels ==
    [ID : IssueIDs, Number : IssueIDs, Title : Texts, State : States,
     CreatedAt : CreatedTimes, ClosedAt : OptTimes,
     UserID : {NoID} \cup UserIDs, MilestoneID : {Null} \cup MilestoneIDs,
     Labels : SUBSET LabelIDs, Assignees : SUBSET UserIDs]

B2N(b) == IF b THEN 1 ELSE 0

\* In how many aspects m differs from the plain issue of its id.
Vary(m) ==
    B2N(m.Number # m.ID) + B2N(m.Title # "a") + B2N(m.State # "open")
    + B2N(m.ClosedAt # Null)
    + B2N(m.UserID # NoID) + B2N(m.MilestoneID # Null)
    + B2N(m.Labels # {}) + B2N(m.Assignees # {})

\* The issue models the calls are made with: the plain issue of each id and
\* every issue that differs from it in one aspect.
IssueModels == {m \in AllIssueModels : Vary(m) <= 1 /\ m.CreatedAt = 1}

\* The issue models UpdateIssue is called with: those, and the plain issue
\* of each id with another creation time.
UpdateModels ==
    IssueModels \cup {m \in AllIssueModels : Vary(m) = 0 /\ m.CreatedAt # 1}

\* dao.UserModel, dao.LabelModel, dao.MilestoneModel.
UserModels == [ID : UserIDs, Login : Texts]
LabelModels == [ID : LabelIDs, Name : Texts]
MilestoneModels == [ID : MilestoneIDs, Title : Texts, DueOn : OptTimes]

\* ------------------------------------------------------------------ tables

EmptyDB ==
    [issues |-> EmptyBag, issue_labels |-> {}, issue_assignees |-> {},
     users |-> EmptyBag, labels |-> EmptyBag, milestones |-> EmptyBag,
     repos |-> EmptyBag]

\* Query().Where(X.ID(id)): the distinct rows of table t with primary key id,
\* and how many rows there are.
RowsByID(t, id) == {r \in BagToSet(t) : r.ID = id}
CountByID(t, id) == BagCardinality([r \in RowsByID(t, id) |-> t[r]])

\* ent's Only(): the single matching row, else a not-found / not-singular error.
HasOne(t, id) == CountByID(t, id) = 1
TheRow(t, id) == CHOOSE r \in RowsByID(t, id) : TRUE

\* INSERT of one row; UPDATE ... WHERE id = $1 setting the rows to new.
Insert(t, r) == t (+) SetToBag({r})
UpdateByID(t, id, new) ==
    [r \in BagToSet(t) \ RowsByID(t, id) |-> t[r]] (+) [r \in {new} |-> CountByID(t, id)]

\* The result of a DAO call: the database afterwards, the error it returns
\* ("nil" for success) and, for an error, what caused it.
\* tx tells how the transaction of the call ended: "none" (the call opened
\* none), "committed", "rolledback", "ended" (its commit failed, which closes
\* it) or "open" (the call returned with the transaction still open).
Result(d, e, c) == [db |-> d, err |-> e, cause |-> c, tx |-> "none"]
Ok(d) == Result(d, "nil", "none")
TxResult(d, e, c, t) == [db |-> d, err |-> e, cause |-> c, tx |-> t]

\* An injected infrastructure failure (connection loss, cancelled context):
\* its kind names the statement that fails, at the issue of that position.
NoFault == [kind |-> "none", at |-> 0]
Fault(k, i) == [kind |-> k, at |-> i]

\* ------------------------------------------------------- issue write paths

\* An issue row that takes the milestone id of the model as it comes.
IssueRowLinked(m, milestoneExists) ==
    [ID |-> m.ID, Number |-> m.Number, Title |-> m.Title, State |-> m.State,
     CreatedAt |-> m.CreatedAt, ClosedAt |-> m.ClosedAt, UserID |-> m.UserID,
     MilestoneID |-> m.MilestoneID]

\* The row tx.Issue.Create()...Save() inserts for model m: the milestone
\* column is set only when the milestone lookup found the row.
IssueRow(m, milestoneExists) ==
    [ID |-> m.ID, Number |-> m.Number, Title |-> m.Title, State |-> m.State,
     CreatedAt |-> m.CreatedAt, ClosedAt |-> m.ClosedAt, UserID |-> m.UserID,
     MilestoneID |-> IF m.MilestoneID # Null /\ milestoneExists
                     THEN m.MilestoneID ELSE Null]

\* A store that checks no primary key on insert.
NoExistenceConflict(s, m) == FALSE

\* The INSERT of the issue row or of a join row meets a row of the same
\* primary key (issues.id, or the key pair of issue_labels / issue_assignees).
ExistenceConflict(s, m) ==
    \/ RowsByID(s.issues, m.ID) # {}
    \/ \E l \in m.Labels : <<m.ID, l>> \in s.issue_labels
    \/ \E a \in m.Assignees : <<m.ID, a>> \in s.issue_assignees

\* A schema without the foreign keys of the issue edges.
NoMissingReference(s, m) == FALSE

\* The INSERT names a user or label that has no row: the foreign key of
\* user_id or of a join table.
MissingReference(s, m) ==
    \/ m.UserID # NoID /\ RowsByID(s.users, m.UserID) = {}
    \/ \E l \in m.Labels : RowsByID(s.labels, l) = {}
    \/ \E a \in m.Assignees : RowsByID(s.users, a) = {}

\* creator.Save(ctx) returns a constraint error.
IssueSaveViolates(s, m) == ExistenceConflict(s, m) \/ MissingReference(s, m)

\* creator.Save(ctx) succeeding inside the transaction state s.
SaveIssue(s, m, milestoneExists) ==
    [s EXCEPT !.issues = Insert(@, IssueRow(m, milestoneExists)),
              !.issue_labels = @ \cup {<<m.ID, l>> : l \in m.Labels},
              !.issue_assignees = @ \cup {<<m.ID, a>> : a \in m.Assignees}]

\* A rollback that leaves the writes of the transaction in place.
KeepWritten(d, s) == s

\* tx.Rollback(): the database as it was when the transaction began (d),
\* whatever the transaction had written (s).
Rollback(d, s) == d

\* An error return that leaves the transaction as it is: nothing of it is
\* committed and it stays open.
ReturnedOpen(d, s, e, c) == TxResult(d, e, c, "open")

\* tx.Rollback() and the return of error e, on an error path and in the
\* deferred recover of a panic.
RolledBack(d, s, e, c) == TxResult(Rollback(d, s), e, c, "rolledback")

\* The milestone lookup runs only for a non-nil, non-zero milestone id.
LooksUpMilestone(m) == m.MilestoneID # Null /\ m.MilestoneID # NoID

\* The loop of BatchCreateIssues from issue i on, then the commit.
RECURSIVE BatchLoop(_, _, _, _, _)
BatchLoop(d, s, issues, i, fault) ==
    IF i > Len(issues)
    THEN IF fault.kind = "commit"
         THEN TxResult(Rollback(d, s), "commit", "io", "ended")
         ELSE TxResult(s, "nil", "none", "committed")
    ELSE LET m == issues[i]
             exists == LooksUpMilestone(m) /\ HasOne(s.milestones, m.MilestoneID)
         IN  IF fault = Fault("panic", i)
             THEN RolledBack(d, s, "panic", "panic")
             ELSE IF LooksUpMilestone(m) /\ fault = Fault("query", i)
             THEN RolledBack(d, s, "query", "io")
             ELSE IF fault = Fault("save", i)
             THEN RolledBack(d, s, "create", "io")
             ELSE IF IssueSaveViolates(s, m)
             THEN RolledBack(d, s, "create", "constraint")
             ELSE BatchLoop(d, SaveIssue(s, m, exists), issues, i + 1, fault)

\* PostgresDAO.BatchCreateIssues(issues) on database d.
BatchCreateIssues(d, issues, fault) ==
    IF fault.kind = "begin"
    THEN Result(d, "begin", "io")
    ELSE BatchLoop(d, d, issues, 1, fault)

\* PostgresDAO.CreateIssue(issueModel) on database d.
CreateIssue(d, m, fault) ==
    IF fault.kind = "begin"
    THEN Result(d, "begin", "io")
    ELSE LET exists == LooksUpMilestone(m) /\ HasOne(d.milestones, m.MilestoneID)
         IN  IF fault.kind = "panic"
             THEN RolledBack(d, d, "panic", "panic")
             ELSE IF LooksUpMilestone(m) /\ fault.kind = "query"
             THEN RolledBack(d, d, "query", "io")
             ELSE IF fault.kind = "save"
             THEN RolledBack(d, d, "create", "io")
             ELSE IF IssueSaveViolates(d, m)
             THEN RolledBack(d, d, "create", "constraint")
             ELSE IF fault.kind = "commit"
             THEN TxResult(Rollback(d, SaveIssue(d, m, exists)), "commit", "io", "ended")
             ELSE TxResult(SaveIssue(d, m, exists), "nil", "none", "committed")

\* An update that stores the model as a create would: it puts the whole row
\* and the links of m in place of what is stored, and inserts them when no
\* row has the id.
ReplaceIssue(d, m, fault) ==
    IF fault.kind = "save"
    THEN Result(d, "update", "io")
    ELSE IF \/ m.UserID # NoID /\ RowsByID(d.users, m.UserID) = {}
            \/ m.MilestoneID # Null /\ RowsByID(d.milestones, m.MilestoneID) = {}
            \/ \E l \in m.Labels : RowsByID(d.labels, l) = {}
            \/ \E a \in m.Assignees : RowsByID(d.users, a) = {}
    THEN Result(d, "update", "constraint")
    ELSE Ok([d EXCEPT
               !.issues = IF HasOne(@, m.ID)
                          THEN UpdateByID(@, m.ID, IssueRow(m, TRUE))
                          ELSE Insert(@, IssueRow(m, TRUE)),
               !.issue_labels = {x \in @ : x[1] # m.ID} \cup {<<m.ID, l>> : l \in m.Labels},
               !.issue_assignees = {x \in @ : x[1] # m.ID} \cup {<<m.ID, a>> : a \in m.Assignees}])

\* PostgresDAO.UpdateIssue(issueModel): one UPDATE statement by primary key.
UpdateIssue(d, m, fault) ==
    IF fault.kind = "save"
    THEN Result(d, "update", "io")
    ELSE IF ~HasOne(d.issues, m.ID)
    THEN Result(d, "update", "notfound")
    ELSE IF \/ m.UserID # NoID /\ RowsByID(d.users, m.UserID) = {}
            \/ m.MilestoneID # Null /\ RowsByID(d.milestones, m.MilestoneID) = {}
    THEN Result(d, "update", "constraint")
    ELSE LET old == TheRow(d.issues, m.ID)
             new == [old EXCEPT !.Number = m.Number, !.Title = m.Title,
                                !.State = m.State,
                                !.ClosedAt = m.ClosedAt,
                                !.UserID = IF m.UserID # NoID THEN m.UserID ELSE @,
                                !.MilestoneID = m.MilestoneID]
         IN  Ok([d EXCEPT !.issues = UpdateByID(@, m.ID, new)])

\* ON DELETE CASCADE of a join table (issue_labels, issue_assignees): the
\* links of issue id go with its row.
Cascade(links, id) == {x \in links : x[1] # id}

\* A delete that removes the issue row and leaves its join rows behind.
DeleteRowOnly(d, id, fault) ==
    IF fault.kind = "save" THEN Result(d, "delete", "io")
    ELSE IF RowsByID(d.issues, id) = {} THEN Result(d, "delete", "notfound")
    ELSE Ok([d EXCEPT !.issues = [r \in BagToSet(@) \ RowsByID(@, id) |-> @[r]]])

\* PostgresDAO.DeleteIssue(id): DeleteOneID(id).Exec, a not-found error when
\* no row was deleted.
DeleteIssue(d, id, fault) ==
    IF fault.kind = "save" THEN Result(d, "delete", "io")
    ELSE IF RowsByID(d.issues, id) = {} THEN Result(d, "delete", "notfound")
    ELSE Ok([d EXCEPT !.issues = [r \in BagToSet(@) \ RowsByID(@, id) |-> @[r]],
                      !.issue_labels = Cascade(@, id),
                      !.issue_assignees = Cascade(@, id)])

\* ------------------------------------------------- supporting entity upserts

UserRow(m) == [ID |-> m.ID, Login |-> m.Login]
LabelRow(m) == [ID |-> m.ID, Name |-> m.Name]
MilestoneRow(m) == [ID |-> m.ID, Title |-> m.Title, DueOn |-> m.DueOn]

\* A table that takes a second row of a stored primary key.
KeyNeverTaken(t, id) == FALSE

\* The INSERT of a row of primary key id into table t meets a stored row of
\* that key.
KeyTaken(t, id) == RowsByID(t, id) # {}

\* PostgresDAO.CreateUser: one INSERT.
CreateUser(d, m, fault) ==
    IF fault.kind = "save" THEN Result(d, "create", "io")
    ELSE IF KeyTaken(d.users, m.ID) THEN Result(d, "create", "constraint")
    ELSE Ok([d EXCEPT !.users = Insert(@, UserRow(m))])

\* PostgresDAO.CreateLabel.
CreateLabel(d, m, fault) ==
    IF fault.kind = "save" THEN Result(d, "create", "io")
    ELSE IF KeyTaken(d.labels, m.ID) THEN Result(d, "create", "constraint")
    ELSE Ok([d EXCEPT !.labels = Insert(@, LabelRow(m))])

\* PostgresDAO.CreateMilestone.
CreateMilestone(d, m, fault) ==
    IF fault.kind = "save" THEN Result(d, "create", "io")
    ELSE IF KeyTaken(d.milestones, m.ID) THEN Result(d, "create", "constraint")
    ELSE Ok([d EXCEPT !.milestones = Insert(@, MilestoneRow(m))])

\* An upsert that creates an absent user and leaves a stored one as it is.
UpsertUserKeepsStored(d, m, fault) ==
    IF fault.kind = "query" THEN Result(d, "query", "io")
    ELSE IF fault.kind = "save"
    THEN Result(d, IF HasOne(d.users, m.ID) THEN "update" ELSE "create", "io")
    ELSE IF ~HasOne(d.users, m.ID)
    THEN Ok([d EXCEPT !.users = Insert(@, UserRow(m))])
    ELSE Ok(d)

\* PostgresDAO.UpsertUser: look the id up; create when absent, else update.
UpsertUser(d, m, fault) ==
    IF fault.kind = "query"
    THEN Result(d, "query", "io")
    ELSE IF fault.kind = "save"
    THEN Result(d, IF HasOne(d.users, m.ID) THEN "update" ELSE "create", "io")
    ELSE IF ~HasOne(d.users, m.ID)
    THEN Ok([d EXCEPT !.users = Insert(@, UserRow(m))])
    ELSE Ok([d EXCEPT !.users = UpdateByID(@, m.ID, UserRow(m))])

\* PostgresDAO.UpsertLabel.
UpsertLabel(d, m, fault) ==
    IF fault.kind = "query"
    THEN Result(d, "query", "io")
    ELSE IF fault.kind = "save"
    THEN Result(d, IF HasOne(d.labels, m.ID) THEN "update" ELSE "create", "io")
    ELSE IF ~HasOne(d.labels, m.ID)
    THEN Ok([d EXCEPT !.labels = Insert(@, LabelRow(m))])
    ELSE Ok([d EXCEPT !.labels = UpdateByID(@, m.ID, LabelRow(m))])

\* An update that sets a present due date and leaves an absent one alone.
KeptDueOn(old, m) == IF m.DueOn # Null THEN m.DueOn ELSE old.DueOn

\* The due_on column after the update of UpsertMilestone: SetDueOn for a
\* present value, ClearDueOn for an absent one.
UpdatedDueOn(old, m) == IF m.DueOn # Null THEN m.DueOn ELSE Null

\* PostgresDAO.UpsertMilestone.
UpsertMilestone(d, m, fault) ==
    IF fault.kind = "query"
    THEN Result(d, "query", "io")
    ELSE IF fault.kind = "save"
    THEN Result(d, IF HasOne(d.milestones, m.ID) THEN "update" ELSE "create", "io")
    ELSE IF ~HasOne(d.milestones, m.ID)
    THEN Ok([d EXCEPT !.milestones = Insert(@, MilestoneRow(m))])
    ELSE LET old == TheRow(d.milestones, m.ID)
             new == [old EXCEPT !.Title = m.Title, !.DueOn = UpdatedDueOn(old, m)]
         IN  Ok([d EXCEPT !.milestones = UpdateByID(@, m.ID, new)])

\* PostgresDAO.entMilestoneToModel: the due date is copied when the column is
\* not NULL.
entMilestoneToModel(row) ==
    [ID |-> row.ID, Title |-> row.Title,
     DueOn |-> IF row.DueOn # Null THEN row.DueOn ELSE Null]

\* PostgresDAO.GetMilestoneByID: the model of the row, or a not-found error.
GetMilestoneByID(d, id) ==
    IF HasOne(d.milestones, id)
    THEN [err |-> "nil", model |-> <<entMilestoneToModel(TheRow(d.milestones, id))>>]
    ELSE [err |-> "notfound", model |-> <<>>]

\* ------------------------------------------------------------------- reads

\* Query()...Only(ctx) over the rows a query matches (a bag): the row when
\* there is exactly one, a not-found error when there is none, and a
\* not-singular error, reported as a failed query, when there are several.
Only(matches) ==
    IF BagCardinality(matches) = 0 THEN [err |-> "notfound", row |-> <<>>]
    ELSE IF BagCardinality(matches) = 1
    THEN [err |-> "nil", row |-> <<CHOOSE r \in BagToSet(matches) : TRUE>>]
    ELSE [err |-> "query", row |-> <<>>]
Matching(t, rows) == [r \in rows |-> t[r]]

\* PostgresDAO.entIssueToModel on a row loaded WithLabels, WithAssignees.
entIssueToModel(d, row) ==
    [ID |-> row.ID, Number |-> row.Number, Title |-> row.Title,
     State |-> row.State, CreatedAt |-> row.CreatedAt,
     ClosedAt |-> IF row.ClosedAt # Null THEN row.ClosedAt ELSE Null,
     UserID |-> row.UserID,
     MilestoneID |-> IF row.MilestoneID # Null THEN row.MilestoneID ELSE Null,
     Labels |-> {x[2] : x \in {y \in d.issue_labels : y[1] = row.ID}},
     Assignees |-> {x[2] : x \in {y \in d.issue_assignees : y[1] = row.ID}}]

\* The getters return the error ("nil", "notfound" or "query") and the model.

\* PostgresDAO.GetIssueByID.
GetIssueByID(d, id) ==
    LET found == Only(Matching(d.issues, RowsByID(d.issues, id)))
    IN  IF found.err = "nil"
        THEN [err |-> "nil", model |-> <<entIssueToModel(d, found.row[1])>>]
        ELSE [err |-> found.err, model |-> <<>>]

\* PostgresDAO.GetIssueByNumber.
GetIssueByNumber(d, number) ==
    LET found == Only(Matching(d.issues, {r \in BagToSet(d.issues) : r.Number = number}))
    IN  IF found.err = "nil"
        THEN [err |-> "nil", model |-> <<entIssueToModel(d, found.row[1])>>]
        ELSE [err |-> found.err, model |-> <<>>]

\* dao.ListOptions.
ListOffsets == {0, 1}
ListLimits == {0, 1}
ListStates == {"", "all", "open", "closed"}
ListOptions == [Offset : ListOffsets, Limit : ListLimits, State : ListStates]

\* A query that never filters on the state.
AnyStateMatches(opts, row) == TRUE

\* Where(issue.State(opts.State)), added for a state other than "" and "all".
StateMatches(opts, row) ==
    (opts.State # "" /\ opts.State # "all") => row.State = opts.State

\* The query has no ORDER BY: the engine yields the rows in an order of its
\* choice, any listing of them without repetition.
Orders(rows) ==
    {ord \in [1..Cardinality(rows) -> rows] : \A r \in rows : \E i \in DOMAIN ord : ord[i] = r}

\* OFFSET n and LIMIT n on the rows in the order the engine yields them.
Offset(ord, n) == SubSeq(ord, n + 1, Len(ord))
Limit(ord, n) == SubSeq(ord, 1, IF n < Len(ord) THEN n ELSE Len(ord))

\* PostgresDAO.ListIssues(opts), the engine yielding the issue rows in order
\* ord: the offset applies before the limit, whatever the order of the calls
\* that build the query.
ListIssues(d, opts, ord) ==
    LET matches == SelectSeq(ord, LAMBDA r : StateMatches(opts, r))
        skipped == IF opts.Offset > 0 THEN Offset(matches, opts.Offset) ELSE matches
        page == IF opts.Limit > 0 THEN Limit(skipped, opts.Limit) ELSE skipped
    IN  [err |-> "nil", model |-> [i \in DOMAIN page |-> entIssueToModel(d, page[i])]]

\* PostgresDAO.GetUserByID.
GetUserByID(d, id) ==
    LET found == Only(Matching(d.users, RowsByID(d.users, id)))
    IN  IF found.err = "nil"
        THEN [err |-> "nil", model |-> <<[ID |-> found.row[1].ID, Login |-> found.row[1].Login]>>]
        ELSE [err |-> found.err, model |-> <<>>]

\* PostgresDAO.GetLabelByID.
GetLabelByID(d, id) ==
    LET found == Only(Matching(d.labels, RowsByID(d.labels, id)))
    IN  IF found.err = "nil"
        THEN [err |-> "nil", model |-> <<[ID |-> found.row[1].ID, Name |-> found.row[1].Name]>>]
        ELSE [err |-> found.err, model |-> <<>>]

\* PostgresDAO.UpsertRepository (dao.RepoDAO): upsert by lookup, like the
\* other supporting entities.
UpsertRepository(d, m, fault) ==
    IF fault.kind = "query"
    THEN Result(d, "query", "io")
    ELSE IF ~HasOne(d.repos, m.ID)
    THEN Ok([d EXCEPT !.repos = Insert(@, m)])
    ELSE Ok([d EXCEPT !.repos = UpdateByID(@, m.ID, m)])

\* ------------------------------------------------------------ remote source

\* Issues per page of the remote listing, and the most pages it holds.
PageLen == 2
MaxPages == 3

\* The raw records of the remote API (github.Issue and its sub-records).  A
\* pointer to a sub-record is a sequence of at most one record; a slice of
\* sub-records is a sequence.
RawUser(id) == [ID |-> id, Login |-> "a"]
RawLabel(id) == [ID |-> id, Name |-> "a"]
RawMilestone(id, due) == [ID |-> id, Title |-> "a", DueOn |-> due]
PlainRawIssue(id) ==
    [ID |-> id, Number |-> id, Title |-> "a", State |-> "open",
     CreatedAt |-> 1, ClosedAt |-> Null, User |-> <<>>,
     Assignees |-> <<>>, Labels |-> <<>>, Milestone |-> <<>>]
RawShapes == {"plain", "closed", "user", "assignee", "label", "milestone", "due"}
RawIssue(id, shape) ==
    CASE shape = "plain" -> PlainRawIssue(id)
      [] shape = "closed" -> [PlainRawIssue(id) EXCEPT !.ClosedAt = 1, !.State = "closed"]
      [] shape = "user" -> [PlainRawIssue(id) EXCEPT !.User = <<RawUser(1)>>]
      [] shape = "assignee" -> [PlainRawIssue(id) EXCEPT !.Assignees = <<RawUser(1)>>]
      [] shape = "label" -> [PlainRawIssue(id) EXCEPT !.Labels = <<RawLabel(1)>>]
      [] shape = "milestone" -> [PlainRawIssue(id) EXCEPT !.Milestone = <<RawMilestone(1, Null)>>]
      [] shape = "due" -> [PlainRawIssue(id) EXCEPT !.Milestone = <<RawMilestone(1, 1)>>]

\* The raw repository record (github.Repository).
RawRepo ==
    [ID |-> 1, Name |-> "r", Owner |-> <<[Login |-> "o"]>>, FullName |-> "",
     DefaultBranch |-> "", PushedAt |-> Null]

\* A remote repository: pages full pages of issues, listed in id order; tail
\* tells whether the last full page still carries a next-page token (the
\* page after it is then empty).
Remote(pages, tail, shape) ==
    [pages |-> pages, tail |-> tail,
     issues |-> [id \in 1..(pages * PageLen) |-> RawIssue(id, shape)],
     repo |-> RawRepo]
NoRemote == Remote(0, FALSE, "plain")

\* client.Issues.ListByRepo(opts) with opts.Page = page (page 0, the unset
\* option, is the first page): the issues of the page and resp.NextPage.
ListByRepo(g, page) ==
    LET p == IF page = 0 THEN 1 ELSE page
    IN  [issues |-> IF p <= g.pages
                    THEN [j \in 1..PageLen |-> g.issues[(p - 1) * PageLen + j]]
                    ELSE <<>>,
         next |-> IF p < g.pages \/ (p = g.pages /\ g.tail) THEN p + 1 ELSE 0]

\* client.Issues.Get(number): the issues of that number (none: a 404 error).
GetIssue(g, number) == {i \in DOMAIN g.issues : g.issues[i].Number = number}

\* -------------------------------------------------------- ingestion service

convertGitHubUserToModel(u) == [ID |-> u.ID, Login |-> u.Login]
convertGitHubLabelToModel(l) == [ID |-> l.ID, Name |-> l.Name]
convertGitHubMilestoneToModel(ms) ==
    [ID |-> ms.ID, Title |-> ms.Title,
     DueOn |-> IF ms.DueOn # Null THEN ms.DueOn ELSE Null]
convertGitHubIssueToModel(g) ==
    [ID |-> g.ID, Number |-> g.Number, Title |-> g.Title, State |-> g.State,
     CreatedAt |-> g.CreatedAt,
     ClosedAt |-> IF g.ClosedAt # Null THEN g.ClosedAt ELSE Null,
     UserID |-> IF g.User # <<>> THEN g.User[1].ID ELSE NoID,
     MilestoneID |-> IF g.Milestone # <<>> THEN g.Milestone[1].ID ELSE Null,
     Labels |-> {g.Labels[i].ID : i \in DOMAIN g.Labels},
     Assignees |-> {g.Assignees[i].ID : i \in DOMAIN g.Assignees}]

\* The remote repository's fields as they are, without the defaults.
convertGitHubRepositoryAsIs(r) ==
    [ID |-> r.ID, Name |-> r.Name,
     OwnerLogin |-> IF r.Owner # <<>> THEN r.Owner[1].Login ELSE "",
     FullName |-> r.FullName, DefaultBranch |-> r.DefaultBranch,
     PushedAt |-> r.PushedAt]

\* GitHubService.convertGitHubRepositoryToModel: the owner login is empty
\* without an owner; an empty full name becomes owner/name when both are
\* there; an empty default branch becomes "main"; pushed_at is set when the
\* remote has it.
convertGitHubRepositoryToModel(r) ==
    LET ownerLogin == IF r.Owner # <<>> THEN r.Owner[1].Login ELSE ""
    IN  [ID |-> r.ID, Name |-> r.Name, OwnerLogin |-> ownerLogin,
         FullName |-> IF r.FullName = "" /\ ownerLogin # "" /\ r.Name # ""
                      THEN ownerLogin \o "/" \o r.Name ELSE r.FullName,
         DefaultBranch |-> IF r.DefaultBranch = "" THEN "main" ELSE r.DefaultBranch,
         PushedAt |-> IF r.PushedAt # Null THEN r.PushedAt ELSE Null]

\* The supporting upserts persistIssues makes for one raw issue, in order:
\* creator, assignees, labels, milestone.
SupportCalls(g) ==
    [i \in 1..Len(g.User) |-> [kind |-> "UpsertUser", model |-> convertGitHubUserToModel(g.User[i])]]
    \o [i \in 1..Len(g.Assignees) |-> [kind |-> "UpsertUser", model |-> convertGitHubUserToModel(g.Assignees[i])]]
    \o [i \in 1..Len(g.Labels) |-> [kind |-> "UpsertLabel", model |-> convertGitHubLabelToModel(g.Labels[i])]]
    \o [i \in 1..Len(g.Milestone) |-> [kind |-> "UpsertMilestone", model |-> convertGitHubMilestoneToModel(g.Milestone[i])]]

RECURSIVE AllSupportCalls(_)
AllSupportCalls(ghIssues) ==
    IF ghIssues = <<>> THEN <<>>
    ELSE SupportCalls(Head(ghIssues)) \o AllSupportCalls(Tail(ghIssues))

\* A service call in progress: the database and the log of the external
\* calls made so far (remote requests and DAO calls), each with its outcome.
\* The injected fault of a run is the number failAt of the external call that
\* fails for an infrastructure reason (0: none).
Event(ev, arg, ok) == [ev |-> ev, arg |-> arg, ok |-> ok]
Faulty(st, failAt) == Len(st.log) + 1 = failAt
Ran(st, r, ev, arg) == [db |-> r.db, log |-> Append(st.log, Event(ev, arg, r.err = "nil"))]

\* The outcome of a service call: database, error ("nil" for success), cause,
\* log, and the page number its error message reports.
Outcome(st, e, c, page) ==
    [db |-> st.db, err |-> e, cause |-> c, log |-> st.log, page |-> page, tx |-> "none"]

SupportUpsert(d, c, fault) ==
    CASE c.kind = "UpsertUser" -> UpsertUser(d, c.model, fault)
      [] c.kind = "UpsertLabel" -> UpsertLabel(d, c.model, fault)
      [] c.kind = "UpsertMilestone" -> UpsertMilestone(d, c.model, fault)

\* The first loop of persistIssues from supporting upsert i on.
RECURSIVE UpsertSupport(_, _, _, _)
UpsertSupport(st, calls, i, failAt) ==
    IF i > Len(calls) THEN Outcome(st, "nil", "none", 0)
    ELSE LET c == calls[i]
             f == IF Faulty(st, failAt) THEN Fault("query", 0) ELSE NoFault
             r == SupportUpsert(st.db, c, f)
             st1 == Ran(st, r, c.kind, c.model.ID)
         IN  IF r.err # "nil"
             THEN Outcome(st1, "upsert", r.cause, 0)
             ELSE UpsertSupport(st1, calls, i + 1, failAt)

\* A persist that goes to the batch write at once, upserting no user, label
\* or milestone.
persistIssuesOnly(st, ghIssues, failAt) ==
    LET issueModels == [i \in 1..Len(ghIssues) |-> convertGitHubIssueToModel(ghIssues[i])]
        f == IF Faulty(st, failAt) THEN Fault("commit", 0) ELSE NoFault
        r == BatchCreateIssues(st.db, issueModels, f)
        st2 == Ran(st, r, "BatchCreateIssues", Len(ghIssues))
    IN  Outcome(st2, IF r.err = "nil" THEN "nil" ELSE "batch", r.cause, 0)

\* A persist that is one transaction: when a supporting upsert or the batch
\* write fails, the database is as it was when the persist began.
persistIssuesInOneTransaction(st, ghIssues, failAt) ==
    LET up == UpsertSupport(st, AllSupportCalls(ghIssues), 1, failAt)
    IN  IF up.err # "nil" THEN [up EXCEPT !.db = st.db]
        ELSE LET st1 == [db |-> up.db, log |-> up.log]
                 issueModels == [i \in 1..Len(ghIssues) |-> convertGitHubIssueToModel(ghIssues[i])]
                 f == IF Faulty(st1, failAt) THEN Fault("commit", 0) ELSE NoFault
                 r == BatchCreateIssues(st1.db, issueModels, f)
                 st2 == Ran(st1, r, "BatchCreateIssues", Len(ghIssues))
             IN  IF r.err = "nil"
                 THEN Outcome(st2, "nil", "none", 0)
                 ELSE Outcome([st2 EXCEPT !.db = st.db], "batch", r.cause, 0)

\* GitHubService.persistIssues(ghIssues).
persistIssues(st, ghIssues, failAt) ==
    LET up == UpsertSupport(st, AllSupportCalls(ghIssues), 1, failAt)
    IN  IF up.err # "nil" THEN up
        ELSE LET st1 == [db |-> up.db, log |-> up.log]
                 issueModels == [i \in 1..Len(ghIssues) |-> convertGitHubIssueToModel(ghIssues[i])]
                 f == IF Faulty(st1, failAt) THEN Fault("commit", 0) ELSE NoFault
                 r == BatchCreateIssues(st1.db, issueModels, f)
                 st2 == Ran(st1, r, "BatchCreateIssues", Len(ghIssues))
             IN  Outcome(st2, IF r.err = "nil" THEN "nil" ELSE "batch", r.cause, 0)

\* GitHubService.SyncRepository(owner, repo).
SyncRepository(st, g, failAt) ==
    IF Faulty(st, failAt)
    THEN Outcome(Ran(st, Result(st.db, "get", "io"), "GetRepository", 0), "repo", "io", 0)
    ELSE LET st1 == Ran(st, Ok(st.db), "GetRepository", 0)
             f == IF Faulty(st1, failAt) THEN Fault("query", 0) ELSE NoFault
             r == UpsertRepository(st1.db, convertGitHubRepositoryToModel(g.repo), f)
         IN  Outcome(Ran(st1, r, "UpsertRepository", g.repo.ID),
                     IF r.err = "nil" THEN "nil" ELSE "repo", r.cause, 0)

\* A fetch that stops after its first page.
FetchOnePage(st, g, page, failAt) ==
    IF Faulty(st, failAt)
    THEN Outcome(Ran(st, Result(st.db, "list", "io"), "ListByRepo", page), "fetch", "io", page)
    ELSE LET lr == ListByRepo(g, page)
             st1 == Ran(st, Ok(st.db), "ListByRepo", page)
         IN  IF Len(lr.issues) = 0
             THEN Outcome(st1, "nil", "none", page)
             ELSE LET pr == persistIssues(st1, lr.issues, failAt)
                  IN  Outcome([db |-> pr.db, log |-> pr.log],
                              IF pr.err # "nil" THEN "persist" ELSE "nil", pr.cause, page)

\* A fetch loop that goes on to the next page after a page failed to persist.
RECURSIVE FetchPastFailedPage(_, _, _, _)
FetchPastFailedPage(st, g, page, failAt) ==
    IF Faulty(st, failAt)
    THEN Outcome(Ran(st, Result(st.db, "list", "io"), "ListByRepo", page), "fetch", "io", page)
    ELSE LET lr == ListByRepo(g, page)
             st1 == Ran(st, Ok(st.db), "ListByRepo", page)
         IN  IF Len(lr.issues) = 0
             THEN Outcome(st1, "nil", "none", page)
             ELSE LET pr == persistIssues(st1, lr.issues, failAt)
                      st2 == [db |-> pr.db, log |-> pr.log]
                  IN  IF lr.next = 0
                      THEN Outcome(st2, IF pr.err # "nil" THEN "persist" ELSE "nil", pr.cause, page)
                      ELSE FetchPastFailedPage(st2, g, lr.next, failAt)

\* A fetch loop that ends on an empty page only: after a page without a
\* next-page token it asks for the page that follows.
RECURSIVE FetchUntilEmptyPage(_, _, _, _)
FetchUntilEmptyPage(st, g, page, failAt) ==
    IF Faulty(st, failAt)
    THEN Outcome(Ran(st, Result(st.db, "list", "io"), "ListByRepo", page), "fetch", "io", page)
    ELSE LET lr == ListByRepo(g, page)
             st1 == Ran(st, Ok(st.db), "ListByRepo", page)
         IN  IF Len(lr.issues) = 0
             THEN Outcome(st1, "nil", "none", page)
             ELSE LET pr == persistIssues(st1, lr.issues, failAt)
                      st2 == [db |-> pr.db, log |-> pr.log]
                  IN  IF pr.err # "nil"
                      THEN Outcome(st2, "persist", pr.cause, page)
                      ELSE FetchUntilEmptyPage(st2, g, IF lr.next = 0 THEN (IF page = 0 THEN 2 ELSE page + 1) ELSE lr.next, failAt)

\* The loop of FetchAndStoreAllIssues with opts.ListOptions.Page = page.
RECURSIVE FetchLoop(_, _, _, _)
FetchLoop(st, g, page, failAt) ==
    IF Faulty(st, failAt)
    THEN Outcome(Ran(st, Result(st.db, "list", "io"), "ListByRepo", page), "fetch", "io", page)
    ELSE LET lr == ListByRepo(g, page)
             st1 == Ran(st, Ok(st.db), "ListByRepo", page)
         IN  IF Len(lr.issues) = 0
             THEN Outcome(st1, "nil", "none", page)
             ELSE LET pr == persistIssues(st1, lr.issues, failAt)
                      st2 == [db |-> pr.db, log |-> pr.log]
                  IN  IF pr.err # "nil"
                      THEN Outcome(st2, "persist", pr.cause, page)
                      ELSE IF lr.next = 0
                      THEN Outcome(st2, "nil", "none", page)
                      ELSE FetchLoop(st2, g, lr.next, failAt)

\* A full fetch that undoes the pages it committed when a later page fails.
FetchAllOrNothing(d, g, failAt) ==
    LET sr == SyncRepository([db |-> d, log |-> <<>>], g, failAt)
        r == IF sr.err # "nil" THEN sr
             ELSE FetchLoop([db |-> sr.db, log |-> sr.log], g, 0, failAt)
    IN  IF r.err # "nil" THEN [r EXCEPT !.db = d] ELSE r

\* A full fetch that goes on to the issues whatever the repository sync
\* returned.
FetchDespiteRepoError(d, g, failAt) ==
    LET sr == SyncRepository([db |-> d, log |-> <<>>], g, failAt)
    IN  FetchLoop([db |-> sr.db, log |-> sr.log], g, 0, failAt)

\* GitHubService.FetchAndStoreAllIssues(owner, repo, state) on database d
\* against remote g.
FetchAndStoreAllIssues(d, g, failAt) ==
    LET sr == SyncRepository([db |-> d, log |-> <<>>], g, failAt)
    IN  IF sr.err # "nil" THEN sr
        ELSE FetchLoop([db |-> sr.db, log |-> sr.log], g, 0, failAt)

\* GitHubService.FetchAndStoreIssues(owner, repo, opts) with
\* opts.ListOptions.Page = page: one page, persisted even when it is empty.
FetchAndStoreIssues(d, g, page, failAt) ==
    LET sr == SyncRepository([db |-> d, log |-> <<>>], g, failAt)
        st == [db |-> sr.db, log |-> sr.log]
    IN  IF sr.err # "nil" THEN sr
        ELSE IF Faulty(st, failAt)
        THEN Outcome(Ran(st, Result(st.db, "list", "io"), "ListByRepo", page), "fetch", "io", page)
        ELSE LET pr == persistIssues(Ran(st, Ok(st.db), "ListByRepo", page),
                                     ListByRepo(g, page).issues, failAt)
             IN  [pr EXCEPT !.page = page]

\* GitHubService.SyncIssue(owner, repo, issueNumber).
SyncIssue(d, g, number, failAt) ==
    LET st == [db |-> d, log |-> <<>>]
        found == GetIssue(g, number)
    IN  IF Faulty(st, failAt) \/ found = {}
        THEN Outcome(Ran(st, Result(d, "get", "io"), "GetIssue", number), "get",
                     IF found = {} THEN "notfound" ELSE "io", 0)
        ELSE persistIssues(Ran(st, Ok(d), "GetIssue", number),
                           <<g.issues[CHOOSE i \in found : TRUE]>>, failAt)

\* GitHubService.UpdateIssueFromGitHub(owner, repo, issueNumber).
UpdateIssueFromGitHub(d, g, number, failAt) == SyncIssue(d, g, number, failAt)

\* ------------------------------------------------------------------- state

VARIABLES
    db,     \* the committed database
    pre,    \* the database (for the document store, the collection) when
            \* the last call began
    last,   \* the last call: operation, argument, injected fault, outcome
    nops,   \* number of calls made
    gh,     \* the remote repository
    callers, \* the upsert calls in progress, one per concurrent caller
    client, \* the connection pool of the ent client: "open" or "closed"
    coll,   \* the github_issues collection of the document store
    repoService \* the in-memory RepoService: its registry and its lock

vars == <<db, pre, last, nops, gh, callers, client, coll, repoService>>

\* The collection NewIssueDAO finds in a fresh database: no document, no
\* index but the one on _id.
EmptyColl == [docs |-> {}, uniqueNumber |-> FALSE]

\* NewRepoService(): an empty registry and a free lock.  mu.writer is the
\* caller that holds the write lock (0: nobody), mu.readers the callers that
\* hold the read lock.
EmptyMap == [k \in {} |-> 0]
NewRepoService == [repos |-> EmptyMap, mu |-> [writer |-> 0, readers |-> {}]]

\* The logical callers that share the client (the connection pool).
Callers == {1, 2}

\* A caller between calls.
Idle == [pc |-> "idle", op |-> "none", arg |-> <<>>, found |-> FALSE, err |-> "nil"]
NoCallers == [c \in Callers |-> Idle]

NoCall ==
    [op |-> "none", arg |-> <<>>, fault |-> NoFault, err |-> "nil",
     cause |-> "none", log |-> <<>>, page |-> 0, out |-> <<>>, tx |-> "none"]

\* The state after NewPostgresDAO and Migrate on a fresh database.
Init ==
    /\ db = EmptyDB
    /\ pre = EmptyDB
    /\ last = NoCall
    /\ nops = 0
    /\ gh = NoRemote
    /\ callers = NoCallers
    /\ client = "open"
    /\ coll = EmptyColl
    /\ repoService = NewRepoService

\* A call of operation op with argument arg whose outcome is r.  The model
\* follows a behaviour up to its first failed call.
Called(op, arg, fault, r, log, page) ==
    /\ last.err = "nil"
    /\ nops' = nops + 1
    /\ pre' = db
    /\ db' = r.db
    /\ last' = [op |-> op, arg |-> arg, fault |-> fault, err |-> r.err,
                cause |-> r.cause, log |-> log, page |-> page, out |-> <<>>,
                tx |-> r.tx]
    /\ UNCHANGED <<gh, callers, client, coll, repoService>>

\* The operations that only read.  A read leaves the database as it was, so
\* the calls after it find what they find without it: the model follows a
\* behaviour up to its first read.
ReadOps ==
    {"GetIssueByID", "GetIssueByNumber", "ListIssues", "GetUserByID",
     "GetLabelByID", "GetMilestoneByID"}

\* The first statement of each operation; on a closed client it fails.
FirstFault(op) ==
    IF op \in {"BatchCreateIssues", "CreateIssue"} THEN Fault("begin", 0)
    ELSE IF op \in {"UpsertUser", "UpsertLabel", "UpsertMilestone"} THEN Fault("query", 0)
    ELSE Fault("save", 0)

\* A call of a DAO operation.  An injected fault is taken only where it
\* decides the outcome; on a closed client the first statement fails.
Call(op, arg, fault, r) ==
    /\ nops < MaxOps
    /\ last.err = "nil"
    /\ last.op \notin ReadOps
    /\ client = "closed" => fault = FirstFault(op)
    /\ fault.kind # "none" => r.cause \in {"io", "panic"}
    /\ Called(op, arg, fault, r, <<>>, 0)

\* The batches the calls are made with: one issue, or an issue followed by
\* a same-shaped issue of any id (its own id included).
Twin(m, j) == [m EXCEPT !.ID = j, !.Number = j]
Batches ==
    {<<m>> : m \in IssueModels}
    \cup {<<m, Twin(m, j)>> : m \in IssueModels, j \in IssueIDs}

TxFaults(n) ==
    {NoFault, Fault("begin", 0), Fault("commit", 0)}
    \cup {Fault(k, i) : k \in {"query", "save", "panic"}, i \in 1..n}
StmtFaults == {NoFault, Fault("query", 0), Fault("save", 0)}

DoBatchCreateIssues ==
    \E b \in Batches : \E f \in TxFaults(Len(b)) :
        Call("BatchCreateIssues", b, f, BatchCreateIssues(db, b, f))

DoCreateIssue ==
    \E m \in IssueModels, f \in TxFaults(1) :
        Call("CreateIssue", m, f, CreateIssue(db, m, f))

DoUpdateIssue ==
    \E m \in UpdateModels, f \in {NoFault, Fault("save", 0)} :
        Call("UpdateIssue", m, f, UpdateIssue(db, m, f))

DoUpsertUser ==
    \E m \in UserModels, f \in StmtFaults :
        Call("UpsertUser", m, f, UpsertUser(db, m, f))

DoUpsertLabel ==
    \E m \in LabelModels, f \in StmtFaults :
        Call("UpsertLabel", m, f, UpsertLabel(db, m, f))

DoUpsertMilestone ==
    \E m \in MilestoneModels, f \in StmtFaults :
        Call("UpsertMilestone", m, f, UpsertMilestone(db, m, f))

SaveFaults == {NoFault, Fault("save", 0)}

DoDeleteIssue ==
    \E id \in IssueIDs, f \in SaveFaults :
        Call("DeleteIssue", id, f, DeleteIssue(db, id, f))

DoCreateUser ==
    \E m \in UserModels, f \in SaveFaults :
        Call("CreateUser", m, f, CreateUser(db, m, f))

DoCreateLabel ==
    \E m \in LabelModels, f \in SaveFaults :
        Call("CreateLabel", m, f, CreateLabel(db, m, f))

DoCreateMilestone ==
    \E m \in MilestoneModels, f \in SaveFaults :
        Call("CreateMilestone", m, f, CreateMilestone(db, m, f))

\* A call of a getter with key key whose outcome is r: the database stays,
\* the model returned is kept in last.out.
Read(op, key, fault, r) ==
    /\ nops < MaxOps
    /\ last.err = "nil"
    /\ last.op \notin ReadOps
    /\ client = "closed" => fault # NoFault
    /\ nops' = nops + 1
    /\ pre' = db
    /\ db' = db
    /\ last' = [op |-> op, arg |-> key, fault |-> fault,
                err |-> IF fault = NoFault THEN r.err ELSE "query",
                cause |-> IF fault = NoFault THEN "none" ELSE "io",
                log |-> <<>>, page |-> 0,
                out |-> IF fault = NoFault THEN r.model ELSE <<>>, tx |-> "none"]
    /\ UNCHANGED <<gh, callers, client, coll, repoService>>

ReadFaults == {NoFault, Fault("query", 0)}

DoGetIssueByID ==
    \E id \in IssueIDs, f \in ReadFaults :
        Read("GetIssueByID", id, f, GetIssueByID(db, id))

DoGetIssueByNumber ==
    \E n \in IssueIDs, f \in ReadFaults :
        Read("GetIssueByNumber", n, f, GetIssueByNumber(db, n))

DoListIssues ==
    \E opts \in ListOptions, f \in ReadFaults :
        \E ord \in Orders(BagToSet(db.issues)) :
            Read("ListIssues", opts, f, ListIssues(db, opts, ord))

DoGetUserByID ==
    \E id \in UserIDs, f \in ReadFaults :
        Read("GetUserByID", id, f, GetUserByID(db, id))

DoGetLabelByID ==
    \E id \in LabelIDs, f \in ReadFaults :
        Read("GetLabelByID", id, f, GetLabelByID(db, id))

DoGetMilestoneByID ==
    \E id \in MilestoneIDs, f \in ReadFaults :
        Read("GetMilestoneByID", id, f, GetMilestoneByID(db, id))

Next ==
    \/ DoBatchCreateIssues
    \/ DoCreateIssue
    \/ DoUpdateIssue
    \/ DoUpsertUser
    \/ DoUpsertLabel
    \/ DoUpsertMilestone
    \/ DoDeleteIssue
    \/ DoCreateUser
    \/ DoCreateLabel
    \/ DoCreateMilestone
    \/ DoGetIssueByID
    \/ DoGetIssueByNumber
    \/ DoGetUserByID
    \/ DoGetLabelByID
    \/ DoGetMilestoneByID

Spec == Init /\ [][Next]_vars

\* The store under single-issue writes, label upserts and listings.
NextList ==
    \/ DoCreateIssue
    \/ DoUpdateIssue
    \/ DoDeleteIssue
    \/ DoUpsertLabel
    \/ DoListIssues

SpecList == Init /\ [][NextList]_vars

\* ---------------------------------------------------------------- lifecycle

\* ent's Client.Close over database/sql: the pool is marked closed and its
\* connections are closed, an error of theirs being returned; on a pool that
\* is closed already there is nothing to do and the call returns nil.
ClientClose(cl, fault) ==
    IF cl = "closed" THEN [client |-> "closed", err |-> "nil", cause |-> "none"]
    ELSE IF fault.kind = "close" THEN [client |-> "closed", err |-> "close", cause |-> "io"]
    ELSE [client |-> "closed", err |-> "nil", cause |-> "none"]

\* A close that reports an error for a client that is closed already.
CloseOnce(cl, fault) ==
    IF cl = "closed" THEN [client |-> "closed", err |-> "close", cause |-> "closed"]
    ELSE ClientClose(cl, fault)

\* PostgresDAO.Close: return d.client.Close().
Close(cl, fault) == ClientClose(cl, fault)

\* App.Close on an application built by NewApp (a.DAO is set): the error of
\* DAO.Close wrapped, else nil.
AppClose(cl, fault) ==
    LET r == Close(cl, fault)
    IN  IF r.err # "nil" THEN [r EXCEPT !.err = "closeDAO"] ELSE r

CloseFaults == {NoFault, Fault("close", 0)}

\* A call of a close operation; its argument records the client it met.
Closing(op, fault, r) ==
    /\ nops < MaxOps
    /\ last.err = "nil"
    /\ fault.kind # "none" => r.cause = "io"
    /\ nops' = nops + 1
    /\ pre' = db
    /\ client' = r.client
    /\ last' = [NoCall EXCEPT !.op = op, !.arg = client, !.fault = fault,
                              !.err = r.err, !.cause = r.cause]
    /\ UNCHANGED <<db, gh, callers, coll, repoService>>

DoClose == \E f \in CloseFaults : Closing("Close", f, Close(client, f))

DoAppClose == \E f \in CloseFaults : Closing("AppClose", f, AppClose(client, f))

\* The store under upserts of the supporting entities and closes.
NextLife ==
    \/ DoUpsertUser
    \/ DoUpsertLabel
    \/ DoUpsertMilestone
    \/ DoClose
    \/ DoAppClose

SpecLife == Init /\ [][NextLife]_vars

\* ----------------------------------------------- properties of the DAO calls

\* The issue models of the last issue write (CreateIssue or BatchCreateIssues).
IsIssueWrite == last.op \in {"CreateIssue", "BatchCreateIssues"}
Written == IF last.op = "CreateIssue" THEN <<last.arg>> ELSE last.arg
WrittenIDs == {Written[i].ID : i \in DOMAIN Written}

\* The stored row of issue id carries the scalar fields of model m.
CarriesScalars(d, m) ==
    /\ HasOne(d.issues, m.ID)
    /\ LET row == TheRow(d.issues, m.ID)
       IN  /\ row.Number = m.Number
           /\ row.Title = m.Title
           /\ row.State = m.State
           /\ row.ClosedAt = m.ClosedAt

\* C1: BatchCreateIssues never fails on an existence conflict: when no fault
\* is injected, every user and label the batch names is stored, and some issue
\* of the batch has an id that is already stored, the call succeeds and every
\* issue of the batch is afterwards one row carrying the new scalar fields.
C1_BatchReplacesStored ==
    (/\ last.op = "BatchCreateIssues"
     /\ last.fault = NoFault
     /\ \A i \in DOMAIN last.arg : ~MissingReference(pre, last.arg[i])
     /\ \E i \in DOMAIN last.arg : RowsByID(pre.issues, last.arg[i].ID) # {})
    => /\ last.err = "nil"
       /\ \A i \in DOMAIN last.arg :
            \E j \in i..Len(last.arg) : CarriesScalars(db, last.arg[j]) /\ last.arg[j].ID = last.arg[i].ID

C3_BatchAllOrNothing ==
    last.op = "BatchCreateIssues" =>
        /\ last.err # "nil" =>
             /\ db.issues = pre.issues
             /\ db.issue_labels = pre.issue_labels
             /\ db.issue_assignees = pre.issue_assignees
        /\ last.err = "nil" =>
             \A i \in DOMAIN last.arg :
                /\ RowsByID(db.issues, last.arg[i].ID) # {}
                /\ \A l \in last.arg[i].Labels : <<last.arg[i].ID, l>> \in db.issue_labels
                /\ \A a \in last.arg[i].Assignees : <<last.arg[i].ID, a>> \in db.issue_assignees

\* C3 witness: a batch of two whose first issue was saved inside the
\* transaction and whose second issue failed to save.
C3_Witness ==
    /\ last.op = "BatchCreateIssues"
    /\ Len(last.arg) = 2
    /\ last.err = "create"
    /\ ~IssueSaveViolates(pre, last.arg[1])
    /\ last.arg[1].Labels # {}
    /\ RowsByID(db.issues, last.arg[1].ID) = {}

\* The call of the last issue write with the milestone ids that have no
\* milestone row taken out of the models.
WithoutMissingMilestone(m) ==
    IF m.MilestoneID # Null /\ RowsByID(pre.milestones, m.MilestoneID) = {}
    THEN [m EXCEPT !.MilestoneID = Null] ELSE m
WrittenWithoutMissing == [i \in DOMAIN Written |-> WithoutMissingMilestone(Written[i])]

\* C6: for CreateIssue and BatchCreateIssues, a milestone id without a
\* milestone row does not fail the write: the call ends as the same call
\* without that milestone id ends, and on success the issue is stored with
\* no milestone link.
C6_MissingMilestoneTolerated ==
    (IsIssueWrite /\ last.fault = NoFault) =>
        LET r == IF last.op = "CreateIssue"
                 THEN CreateIssue(pre, WrittenWithoutMissing[1], NoFault)
                 ELSE BatchCreateIssues(pre, WrittenWithoutMissing, NoFault)
        IN  /\ last.err = r.err
            /\ db = r.db
            /\ last.err = "nil" =>
                 \A i \in DOMAIN Written :
                    (/\ Written[i].MilestoneID # Null
                     /\ RowsByID(pre.milestones, Written[i].MilestoneID) = {})
                    => \A row \in RowsByID(db.issues, Written[i].ID) : row.MilestoneID = Null

\* C6 witness: a successful batch write of an issue whose milestone has no
\* row; the issue is stored without the link.
C6_Witness ==
    /\ last.op = "BatchCreateIssues"
    /\ last.err = "nil"
    /\ last.arg[1].MilestoneID # Null
    /\ pre.milestones = EmptyBag
    /\ HasOne(db.issues, last.arg[1].ID)
    /\ TheRow(db.issues, last.arg[1].ID).MilestoneID = Null

\* C7: late milestone attachment: issue m is stored as its write left it when
\* its milestone had no row, and the milestone has been upserted since; a
\* write of m again (same id, same milestone id) with no fault injected
\* succeeds and the stored issue has the milestone link.
C7_LateMilestoneAttached ==
    (/\ IsIssueWrite
     /\ last.fault = NoFault
     /\ Len(Written) = 1
     /\ Written[1].MilestoneID # Null
     /\ HasOne(pre.milestones, Written[1].MilestoneID)
     /\ HasOne(pre.issues, Written[1].ID)
     /\ TheRow(pre.issues, Written[1].ID) = IssueRow(Written[1], FALSE)
     /\ ~MissingReference(pre, Written[1]))
    => /\ last.err = "nil"
       /\ HasOne(db.issues, Written[1].ID)
       /\ TheRow(db.issues, Written[1].ID).MilestoneID = Written[1].MilestoneID

\* C8: clearing of closed-at: an issue is stored with closed_at set and
\* BatchCreateIssues, the write of ingestion, is called with no fault
\* injected for the same id with ClosedAt absent; the stored closed_at is
\* absent afterwards.
C8_ClosedAtCleared ==
    (/\ last.op = "BatchCreateIssues"
     /\ last.fault = NoFault
     /\ Len(last.arg) = 1
     /\ last.arg[1].ClosedAt = Null
     /\ HasOne(pre.issues, last.arg[1].ID)
     /\ TheRow(pre.issues, last.arg[1].ID).ClosedAt # Null)
    => \A row \in RowsByID(db.issues, last.arg[1].ID) : row.ClosedAt = Null

\* C9: clearing of the due date: a milestone is stored with due_on set and
\* UpsertMilestone succeeds for the same id with DueOn absent;
\* GetMilestoneByID then returns the milestone with DueOn absent.
C9_DueOnCleared ==
    (/\ last.op = "UpsertMilestone"
     /\ last.err = "nil"
     /\ last.arg.DueOn = Null
     /\ HasOne(pre.milestones, last.arg.ID)
     /\ TheRow(pre.milestones, last.arg.ID).DueOn # Null)
    => LET got == GetMilestoneByID(db, last.arg.ID)
       IN  /\ got.err = "nil"
           /\ got.model[1].DueOn = Null
           /\ got.model[1].Title = last.arg.Title

\* C9 witness: the upsert that cleared a stored due date.
C9_Witness ==
    /\ last.op = "UpsertMilestone"
    /\ last.err = "nil"
    /\ last.arg.DueOn = Null
    /\ HasOne(pre.milestones, last.arg.ID)
    /\ TheRow(pre.milestones, last.arg.ID).DueOn # Null
    /\ GetMilestoneByID(db, last.arg.ID).model[1].DueOn = Null

\* ------------------------------------------------- the ingestion service runs

\* The service starts on a fresh database against any remote repository.
InitSync ==
    /\ db = EmptyDB
    /\ pre = EmptyDB
    /\ last = NoCall
    /\ nops = 0
    /\ gh \in {Remote(k, t, sh) : k \in 0..MaxPages, t \in BOOLEAN, sh \in RawShapes}
    /\ callers = NoCallers
    /\ client = "open"
    /\ coll = EmptyColl
    /\ repoService = NewRepoService

\* The most service calls of a behaviour.
MaxRuns == 2

\* The issue numbers single-issue syncs and remote edits are made with.
SyncNumbers == {1, 2}

\* The faults of a single-issue sync: none, or at one of its external calls
\* (the remote request, a supporting upsert, the batch).
SyncFaults == {0, 1, 2, 3}

\* A service call.  The fault is taken only where the run reaches it.
ServiceCall(op, arg, failAt, r) ==
    /\ nops < MaxRuns
    /\ last.err = "nil"
    /\ failAt # 0 => (failAt <= Len(r.log) /\ ~r.log[failAt].ok)
    /\ Called(op, arg, Fault("io", failAt), r, r.log, r.page)

\* The faults of a run: none, or at one of the external calls the run makes
\* when nothing fails before.
FaultsOf(run) == 0..Len(run.log)

DoFetchAndStoreAllIssues ==
    /\ nops < MaxRuns
    /\ last.err = "nil"
    /\ \E failAt \in FaultsOf(FetchAndStoreAllIssues(db, gh, 0)) :
        ServiceCall("FetchAndStoreAllIssues", <<>>, failAt,
                    FetchAndStoreAllIssues(db, gh, failAt))

\* The pages single-page fetches ask for: the unset page and a later one.
FetchPages == {0, 2}

DoFetchAndStoreIssues ==
    /\ nops < MaxRuns
    /\ last.err = "nil"
    /\ \E page \in FetchPages : \E failAt \in FaultsOf(FetchAndStoreIssues(db, gh, page, 0)) :
        ServiceCall("FetchAndStoreIssues", page, failAt,
                    FetchAndStoreIssues(db, gh, page, failAt))

DoSyncIssue ==
    \E n \in SyncNumbers, failAt \in SyncFaults :
        ServiceCall("SyncIssue", n, failAt, SyncIssue(db, gh, n, failAt))

DoUpdateIssueFromGitHub ==
    \E n \in SyncNumbers, failAt \in SyncFaults :
        ServiceCall("UpdateIssueFromGitHub", n, failAt,
                    UpdateIssueFromGitHub(db, gh, n, failAt))

\* The remote side changes its first issue between two service calls: a new
\* title, closed or reopened.
RemoteEdit ==
    /\ last.err = "nil"
    /\ last.op \notin {"none", "RemoteEdit"}
    /\ nops < MaxRuns
    /\ 1 \in DOMAIN gh.issues
    /\ \/ gh' = [gh EXCEPT !.issues[1].Title = "b"]
       \/ gh' = [gh EXCEPT !.issues[1].ClosedAt = IF @ = Null THEN 1 ELSE Null]
    /\ pre' = db
    /\ last' = [NoCall EXCEPT !.op = "RemoteEdit"]
    /\ UNCHANGED <<db, nops, callers, client, coll, repoService>>

NextSync ==
    \/ DoFetchAndStoreAllIssues
    \/ DoFetchAndStoreIssues
    \/ DoSyncIssue
    \/ DoUpdateIssueFromGitHub
    \/ RemoteEdit

SpecSync == InitSync /\ [][NextSync]_vars

\* ------------------------------------------- properties of the service calls

StoredIDs(d) == {r.ID : r \in BagToSet(d.issues)}
Fetches(log) == Cardinality({i \in DOMAIN log : log[i].ev = "ListByRepo"})
IsSync == last.op \in {"SyncIssue", "UpdateIssueFromGitHub"}

C5_SyncCreatesOrUpdates ==
    (/\ IsSync
     /\ last.fault.at = 0
     /\ GetIssue(gh, last.arg) # {})
    => /\ last.err = "nil"
       /\ \A i \in GetIssue(gh, last.arg) :
            CarriesScalars(db, convertGitHubIssueToModel(gh.issues[i]))

\* C10: pagination ends on an empty page: the remote serves k non-empty pages,
\* each with a next-page token, then an empty page; no fault is injected and
\* none of the remote's issues is stored when the run begins.  Then
\* FetchAndStoreAllIssues succeeds, makes exactly k + 1 list requests, and
\* has stored exactly the issues of the k pages.
C10_EndsOnEmptyPage ==
    (/\ last.op = "FetchAndStoreAllIssues"
     /\ last.fault.at = 0
     /\ gh.tail
     /\ StoredIDs(pre) \cap DOMAIN gh.issues = {})
    => /\ last.err = "nil"
       /\ Fetches(last.log) = gh.pages + 1
       /\ StoredIDs(db) = StoredIDs(pre) \cup DOMAIN gh.issues
       /\ BagCardinality(db.issues) = BagCardinality(pre.issues) + gh.pages * PageLen

\* C10 witness: three pages of two issues, then the empty page: six issues
\* stored by four list requests.
C10_Witness ==
    /\ last.op = "FetchAndStoreAllIssues"
    /\ last.err = "nil"
    /\ gh.tail
    /\ gh.pages = 3
    /\ pre.issues = EmptyBag
    /\ BagCardinality(db.issues) = 6
    /\ Fetches(last.log) = 4

\* The writes of issues, users, labels and milestones in a log.
EntityWrites(log) ==
    {i \in DOMAIN log :
        log[i].ev \in {"UpsertUser", "UpsertLabel", "UpsertMilestone", "BatchCreateIssues"}}
IsFetch == last.op \in {"FetchAndStoreAllIssues", "FetchAndStoreIssues"}
SameEntities(d, e) ==
    /\ d.issues = e.issues
    /\ d.issue_labels = e.issue_labels
    /\ d.issue_assignees = e.issue_assignees
    /\ d.users = e.users
    /\ d.labels = e.labels
    /\ d.milestones = e.milestones

\* C11: in FetchAndStoreAllIssues and FetchAndStoreIssues the repository
\* fetch and then UpsertRepository come before any issue-list request, and
\* when either fails the call returns an error having made no issue-list
\* request and no write of a user, label, milestone or issue.
C11_RepositoryFirstAndFatal ==
    IsFetch =>
        /\ last.log[1].ev = "GetRepository"
        /\ Len(last.log) >= 2 => last.log[2].ev = "UpsertRepository"
        /\ \A i \in DOMAIN last.log :
             last.log[i].ev \in {"GetRepository", "UpsertRepository"} => i <= 2
        /\ (\E i \in DOMAIN last.log : i <= 2 /\ ~last.log[i].ok) =>
             /\ last.err # "nil"
             /\ Fetches(last.log) = 0
             /\ EntityWrites(last.log) = {}
             /\ SameEntities(db, pre)

\* C11 witness: a full fetch against a remote with issues whose
\* UpsertRepository failed.
C11_Witness ==
    /\ last.op = "FetchAndStoreAllIssues"
    /\ gh.pages >= 1
    /\ Len(last.log) = 2
    /\ ~last.log[2].ok
    /\ last.err = "repo"

\* The remote page a list request with opts.Page = page asks for.
PageOf(page) == IF page = 0 THEN 1 ELSE page
ListRequests(log) == {i \in DOMAIN log : log[i].ev = "ListByRepo"}

\* C12: FetchAndStoreAllIssues aborts on the first error and retries nothing:
\* an external call that failed (a list request, a supporting upsert, the
\* batch write) is the last call of the run and the run returns an error;
\* no page is requested twice in a run.
C12_AbortOnFirstError ==
    last.op = "FetchAndStoreAllIssues" =>
        /\ \A i \in DOMAIN last.log :
             ~last.log[i].ok => (i = Len(last.log) /\ last.err # "nil")
        /\ \A i, j \in ListRequests(last.log) :
             PageOf(last.log[i].arg) = PageOf(last.log[j].arg) => i = j

\* C12 witness: the batch write of the first of three pages failed; the run
\* ended there with one list request made.
C12_Witness ==
    /\ last.op = "FetchAndStoreAllIssues"
    /\ gh.pages = 3
    /\ last.err = "persist"
    /\ last.log[Len(last.log)].ev = "BatchCreateIssues"
    /\ Fetches(last.log) = 1

\* The ids of the issues of remote pages 1 .. k.
IssuesOfPages(k) == 1..(k * PageLen)

\* C13: pages are committed independently: when FetchAndStoreAllIssues
\* fails while fetching or persisting page k, every issue of pages 1 .. k-1,
\* committed earlier in the run, is stored after the call returns.
C13_EarlierPagesStay ==
    (/\ last.op = "FetchAndStoreAllIssues"
     /\ last.err \in {"fetch", "persist"})
    => \A id \in IssuesOfPages(PageOf(last.page) - 1) :
          CarriesScalars(db, convertGitHubIssueToModel(gh.issues[id]))

\* C13 witness: the third page failed to persist; the issues of the first
\* two pages, absent before the run, are stored.
C13_Witness ==
    /\ last.op = "FetchAndStoreAllIssues"
    /\ last.err = "persist"
    /\ PageOf(last.page) = 3
    /\ pre.issues = EmptyBag
    /\ StoredIDs(db) = IssuesOfPages(2)

\* The ids of the issues of remote page p, and the rows and links database d
\* holds for a set of issue ids.
IssuesOfPage(p) == {id \in DOMAIN gh.issues : (p - 1) * PageLen < id /\ id <= p * PageLen}
IssueRowsOf(d, ids) ==
    [rows |-> {r \in BagToSet(d.issues) : r.ID \in ids},
     count |-> [id \in ids |-> CountByID(d.issues, id)],
     labels |-> {x \in d.issue_labels : x[1] \in ids},
     assignees |-> {x \in d.issue_assignees : x[1] \in ids}]

\* The page of list request i of a log was committed: its batch write, made
\* before the next list request, succeeded.
Committed(log, i) ==
    \E j \in DOMAIN log :
        /\ j > i
        /\ log[j].ev = "BatchCreateIssues"
        /\ log[j].ok
        /\ \A k \in (i + 1)..j : log[k].ev # "ListByRepo"

Getters ==
    {"GetIssueByID", "GetIssueByNumber", "GetUserByID", "GetLabelByID", "GetMilestoneByID"}

\* The stored rows that have the key a getter was called with.
KeyRows(d, op, key) ==
    CASE op = "GetIssueByID" -> RowsByID(d.issues, key)
      [] op = "GetIssueByNumber" -> {r \in BagToSet(d.issues) : r.Number = key}
      [] op = "GetUserByID" -> RowsByID(d.users, key)
      [] op = "GetLabelByID" -> RowsByID(d.labels, key)
      [] op = "GetMilestoneByID" -> RowsByID(d.milestones, key)

\* C15: lookup by alternate key: when an issue with number n is stored,
\* GetIssueByNumber(n) succeeds and returns what GetIssueByID returns for the
\* id of that issue; when no stored issue has number n it fails with
\* not-found (no infrastructure fault injected).
C15_LookupByNumber ==
    (last.op = "GetIssueByNumber" /\ last.fault = NoFault) =>
        IF KeyRows(db, "GetIssueByNumber", last.arg) # {}
        THEN /\ last.err = "nil"
             /\ \A r \in KeyRows(db, "GetIssueByNumber", last.arg) :
                  /\ GetIssueByID(db, r.ID).err = "nil"
                  /\ GetIssueByID(db, r.ID).model = last.out
        ELSE last.err = "notfound"

\* C17: a getter reports not-found exactly when no row has the requested key
\* and returns the stored entity when a row has it; an infrastructure
\* failure is reported as a different error; the database is unchanged.
C17_NotFoundExactlyWhenAbsent ==
    last.op \in Getters =>
        /\ db = pre
        /\ last.fault # NoFault => last.err \notin {"nil", "notfound"}
        /\ last.fault = NoFault =>
             LET rows == KeyRows(db, last.op, last.arg)
             IN  /\ last.err = "notfound" <=> rows = {}
                 /\ rows # {} =>
                      /\ last.err = "nil"
                      /\ \E r \in rows : last.out[1].ID = r.ID

\* ------------------------------------------------ properties of the creates

\* The table a create operation inserts into.
CreateTable(d, op) ==
    CASE op = "CreateIssue" -> d.issues
      [] op = "CreateUser" -> d.users
      [] op = "CreateLabel" -> d.labels
      [] op = "CreateMilestone" -> d.milestones
Creates == {"CreateIssue", "CreateUser", "CreateLabel", "CreateMilestone"}

\* C16: a create rejects a colliding primary key: CreateIssue, CreateUser,
\* CreateLabel and CreateMilestone called with a stored id fail with the
\* constraint error of the insert, and every stored row is left unchanged.
C16_CreateRejectsStoredID ==
    (/\ last.op \in Creates
     /\ last.fault = NoFault
     /\ RowsByID(CreateTable(pre, last.op), last.arg.ID) # {})
    => /\ last.err = "create"
       /\ last.cause = "constraint"
       /\ db = pre

\* C16 witness: CreateMilestone of a stored id with other contents, rejected.
C16_Witness ==
    /\ last.op = "CreateMilestone"
    /\ last.err = "create"
    /\ last.cause = "constraint"
    /\ HasOne(pre.milestones, last.arg.ID)
    /\ TheRow(pre.milestones, last.arg.ID) # MilestoneRow(last.arg)
    /\ db = pre

\* C18: DeleteIssue(id) fails with not-found and changes nothing when no
\* issue has the id; otherwise it removes the issue row with all its label
\* and assignee links and nothing else: no link names the id afterwards and
\* GetIssueByID(id) fails with not-found.
C18_DeleteRemovesRowAndLinks ==
    (last.op = "DeleteIssue" /\ last.fault = NoFault) =>
        IF RowsByID(pre.issues, last.arg) = {}
        THEN /\ last.err = "delete"
             /\ last.cause = "notfound"
             /\ db = pre
        ELSE /\ last.err = "nil"
             /\ RowsByID(db.issues, last.arg) = {}
             /\ \A x \in db.issue_labels \cup db.issue_assignees : x[1] # last.arg
             /\ GetIssueByID(db, last.arg).err = "notfound"
             /\ \A id \in IssueIDs \ {last.arg} :
                  IssueRowsOf(db, {id}) = IssueRowsOf(pre, {id})
             /\ db.users = pre.users
             /\ db.labels = pre.labels
             /\ db.milestones = pre.milestones

\* C18 witness: the delete of an issue that had a label link.
C18_Witness ==
    /\ last.op = "DeleteIssue"
    /\ last.err = "nil"
    /\ \E x \in pre.issue_labels : x[1] = last.arg
    /\ db.issue_labels = {}
    /\ db.labels # EmptyBag

\* ------------------------------------------------ properties of the upserts

Upserts == {"UpsertUser", "UpsertLabel", "UpsertMilestone"}
UpsertTable(d, op) ==
    CASE op = "UpsertUser" -> d.users
      [] op = "UpsertLabel" -> d.labels
      [] op = "UpsertMilestone" -> d.milestones
UpsertRow(op, m) ==
    CASE op = "UpsertUser" -> UserRow(m)
      [] op = "UpsertLabel" -> LabelRow(m)
      [] op = "UpsertMilestone" -> MilestoneRow(m)

\* C19: upsert by lookup replaces in place: after UpsertUser, UpsertLabel or
\* UpsertMilestone of e succeeds there is exactly one row of id e.ID and
\* every field of it is e's, whatever was stored before (created when the id
\* was absent); no other table changes.
C19_UpsertReplacesInPlace ==
    (last.op \in Upserts /\ last.err = "nil") =>
        /\ CountByID(UpsertTable(db, last.op), last.arg.ID) = 1
        /\ TheRow(UpsertTable(db, last.op), last.arg.ID) = UpsertRow(last.op, last.arg)
        /\ BagCardinality(UpsertTable(db, last.op)) =
             BagCardinality(UpsertTable(pre, last.op))
             + (IF RowsByID(UpsertTable(pre, last.op), last.arg.ID) = {} THEN 1 ELSE 0)
        /\ db.issues = pre.issues
        /\ db.issue_labels = pre.issue_labels
        /\ db.issue_assignees = pre.issue_assignees
        /\ \A op \in Upserts \ {last.op} : UpsertTable(db, op) = UpsertTable(pre, op)

\* C19 witness: UpsertUser over a stored user with another login.
C19_Witness ==
    /\ last.op = "UpsertUser"
    /\ last.err = "nil"
    /\ HasOne(pre.users, last.arg.ID)
    /\ TheRow(pre.users, last.arg.ID).Login # last.arg.Login
    /\ TheRow(db.users, last.arg.ID).Login = last.arg.Login

\* The label ids and assignee ids linked to issue id.
LabelsOf(d, id) == {x[2] : x \in {y \in d.issue_labels : y[1] = id}}
AssigneesOf(d, id) == {x[2] : x \in {y \in d.issue_assignees : y[1] = id}}

\* The single issue model of the last write or update of an issue.
IsIssueUpsert == last.op \in {"CreateIssue", "BatchCreateIssues", "UpdateIssue"}
Upserted == IF last.op = "BatchCreateIssues" THEN last.arg ELSE <<last.arg>>

\* C20: associations are additive on upsert: an issue is stored with label
\* links L0 and assignee links A0 and is written again (no fault injected)
\* with label ids L and assignee ids A, all of stored rows; afterwards its
\* links are L0 \cup L and A0 \cup A.
C20_LinksAdditive ==
    (/\ IsIssueUpsert
     /\ last.fault = NoFault
     /\ Len(Upserted) = 1
     /\ HasOne(pre.issues, Upserted[1].ID)
     /\ ~MissingReference(pre, Upserted[1]))
    => LET m == Upserted[1]
       IN  /\ LabelsOf(db, m.ID) = LabelsOf(pre, m.ID) \cup m.Labels
           /\ AssigneesOf(db, m.ID) = AssigneesOf(pre, m.ID) \cup m.Assignees

\* ------------------------------------------- references of the stored issues

\* Model m without its creator id when that user has no row in pre.
WithoutMissingCreator(m) ==
    IF m.UserID # NoID /\ RowsByID(pre.users, m.UserID) = {}
    THEN [m EXCEPT !.UserID = NoID] ELSE m
WrittenWithoutCreator == [i \in DOMAIN Written |-> WithoutMissingCreator(Written[i])]

\* C21: a missing creator never blocks the issue write: for CreateIssue and
\* BatchCreateIssues with no fault injected, a creator id without a user row
\* makes no difference to how the call ends (it ends as the same call without
\* that creator id), and on success the issue is stored with no creator
\* reference.
C21_MissingCreatorTolerated ==
    (IsIssueWrite /\ last.fault = NoFault) =>
        LET r == IF last.op = "CreateIssue"
                 THEN CreateIssue(pre, WrittenWithoutCreator[1], NoFault)
                 ELSE BatchCreateIssues(pre, WrittenWithoutCreator, NoFault)
        IN  /\ last.err = r.err
            /\ last.err = "nil" =>
                 \A i \in DOMAIN Written :
                    (/\ Written[i].UserID # NoID
                     /\ RowsByID(pre.users, Written[i].UserID) = {})
                    => \A row \in RowsByID(db.issues, Written[i].ID) : row.UserID = NoID

\* C22: issue numbers are unique in the store: no two stored issues of
\* different ids have the same number (a write that would give a second
\* issue a used number is rejected).
C22_NumbersUnique ==
    \A r1, r2 \in BagToSet(db.issues) : r1.Number = r2.Number => r1.ID = r2.ID

\* Every reference of the stored issues of d has its row: the creator and
\* the milestone column of each issue row, and the label and the user of each
\* link of a stored issue.
ReferencesStored(d) ==
    /\ \A row \in BagToSet(d.issues) :
         /\ row.UserID # NoID => RowsByID(d.users, row.UserID) # {}
         /\ row.MilestoneID # Null => RowsByID(d.milestones, row.MilestoneID) # {}
         /\ \A l \in LabelsOf(d, row.ID) : RowsByID(d.labels, l) # {}
         /\ \A a \in AssigneesOf(d, row.ID) : RowsByID(d.users, a) # {}

\* C23: referential integrity is an invariant of the store: in every state
\* reached by create, upsert, batch write, update and delete calls, each
\* stored issue's creator, milestone, labels and assignees are stored rows.
C23_ReferentialIntegrity == ReferencesStored(db)

\* C23 witness: an update has just given a stored issue a creator, and the
\* user row is there.
C23_Witness ==
    /\ last.op = "UpdateIssue"
    /\ last.err = "nil"
    /\ last.arg.UserID # NoID
    /\ TheRow(pre.issues, last.arg.ID).UserID = NoID
    /\ TheRow(db.issues, last.arg.ID).UserID = last.arg.UserID
    /\ HasOne(db.users, last.arg.UserID)

\* ---------------------------------------------------- properties of listing

\* The reference filter: the stored issues a listing with state filter st
\* is to return.
RefMatches(d, st) ==
    {r \in BagToSet(d.issues) : st \in {"open", "closed"} => r.State = st}

\* How many of n matches are left after skipping off and taking at most lim
\* (a value of 0 switches the skip or the cap off).
RefCount(n, off, lim) ==
    LET rest == IF off > 0 THEN (IF n > off THEN n - off ELSE 0) ELSE n
    IN  IF lim > 0 /\ lim < rest THEN lim ELSE rest

\* C24: ListIssues against the reference filter (no fault injected): it
\* succeeds and changes nothing; every returned issue is a stored issue that
\* matches the state filter ("all" and "" filter nothing), returned once,
\* with its stored fields and links; with Limit > 0 at most Limit issues are
\* returned, with Offset > 0 Offset matches are skipped, and with both 0
\* every match is returned.
C24_ListAgainstReference ==
    (last.op = "ListIssues" /\ last.fault = NoFault) =>
        LET opts == last.arg
            out == last.out
            ref == RefMatches(db, opts.State)
        IN  /\ last.err = "nil"
            /\ db = pre
            /\ \A i \in DOMAIN out :
                 /\ opts.State \in {"open", "closed"} => out[i].State = opts.State
                 /\ \E r \in ref : out[i] = entIssueToModel(db, r)
                 /\ \A j \in DOMAIN out : out[j].ID = out[i].ID => j = i
            /\ opts.Limit > 0 => Len(out) <= opts.Limit
            /\ Len(out) = RefCount(Cardinality(ref), opts.Offset, opts.Limit)
            /\ (opts.Offset = 0 /\ opts.Limit = 0) =>
                 \A r \in ref : \E i \in DOMAIN out : out[i] = entIssueToModel(db, r)

\* C24 witness: an open and a closed issue are stored and a listing of the
\* closed issues returns the closed one alone.
C24_Witness ==
    /\ last.op = "ListIssues"
    /\ last.fault = NoFault
    /\ last.arg = [Offset |-> 0, Limit |-> 0, State |-> "closed"]
    /\ \E r \in BagToSet(db.issues) : r.State = "open"
    /\ Len(last.out) = 1
    /\ last.out[1].State = "closed"

\* ------------------------------------------------------ concurrent upserts

\* The most upsert calls begun in one behaviour.
MaxUpserts == 3

UpsertModels(op) ==
    CASE op = "UpsertUser" -> UserModels
      [] op = "UpsertLabel" -> LabelModels
      [] op = "UpsertMilestone" -> MilestoneModels

\* The create each upsert calls when its lookup found no row.
CreateOf(op, d, m) ==
    CASE op = "UpsertUser" -> CreateUser(d, m, NoFault)
      [] op = "UpsertLabel" -> CreateLabel(d, m, NoFault)
      [] op = "UpsertMilestone" -> CreateMilestone(d, m, NoFault)

\* The update each upsert makes when its lookup found the row (the row is
\* still there: no operation deletes a user, a label or a milestone).
UpdateOf(op, d, m) ==
    CASE op = "UpsertUser" -> UpsertUser(d, m, NoFault)
      [] op = "UpsertLabel" -> UpsertLabel(d, m, NoFault)
      [] op = "UpsertMilestone" -> UpsertMilestone(d, m, NoFault)

\* Caller c begins an upsert: Query().Where(ID).Only(ctx), one statement on a
\* connection of the pool.
Lookup(c) ==
    /\ callers[c].pc # "looked"
    /\ nops < MaxUpserts
    /\ \E op \in Upserts : \E m \in UpsertModels(op) :
         callers' = [callers EXCEPT ![c] =
                        [pc |-> "looked", op |-> op, arg |-> m,
                         found |-> HasOne(UpsertTable(db, op), m.ID), err |-> "nil"]]
    /\ nops' = nops + 1
    /\ UNCHANGED <<db, pre, last, gh, client, coll, repoService>>

\* Caller c goes on to the statement its lookup chose, the INSERT of the
\* create or the UPDATE, on the database as it is by now.
Write(c) ==
    /\ callers[c].pc = "looked"
    /\ LET op == callers[c].op
           m == callers[c].arg
           r == IF callers[c].found THEN UpdateOf(op, db, m) ELSE CreateOf(op, db, m)
       IN  /\ db' = r.db
           /\ pre' = db
           /\ callers' = [callers EXCEPT ![c].pc = "done", ![c].err = r.err]
           /\ last' = [NoCall EXCEPT !.op = op, !.arg = m, !.err = r.err,
                                     !.cause = r.cause]
    /\ UNCHANGED <<nops, gh, client, coll, repoService>>

NextRace == \E c \in Callers : Lookup(c) \/ Write(c)

SpecRace == Init /\ [][NextRace]_vars

\* C25: upsert stays conflict-free under concurrent callers: under every
\* interleaving of the lookups and writes of the callers, an upsert that has
\* returned has succeeded and exactly one row of its id is stored.
C25_ConcurrentUpsertsSucceed ==
    \A c \in Callers :
        callers[c].pc = "done" =>
            /\ callers[c].err = "nil"
            /\ CountByID(UpsertTable(db, callers[c].op), callers[c].arg.ID) = 1

\* ------------------------------------------------ properties of the lifecycle

CloseOps == {"Close", "AppClose"}

\* C26: Close is idempotent: a call of PostgresDAO.Close or App.Close on a
\* client that an earlier close has closed returns nil and changes nothing
\* (the database is as before and the client stays closed).
C26_CloseIdempotent ==
    (last.op \in CloseOps /\ last.arg = "closed") =>
        /\ last.err = "nil"
        /\ db = pre
        /\ client = "closed"

\* C26 witness: App.Close called on a closed client, with rows stored.
C26_Witness ==
    /\ last.op = "AppClose"
    /\ last.arg = "closed"
    /\ last.err = "nil"
    /\ client = "closed"
    /\ db.users # EmptyBag

\* ============================================================ document store
\* IssueDAO over the github_issues collection.  A document is a function from
\* field names to values; a field an encoding omits is not in its domain.

\* repo.Issue.  Title stands for the fields without omitempty (title, body,
\* state, comments, created_at, updated_at, html_url, locked); an embedded
\* user or milestone stands by its id, Null being the nil pointer; Labels and
\* Assignees are the slices, read as sets of ids.
AllDocIssues ==
    [ID : IssueIDs, Number : IssueIDs, Title : Texts, ClosedAt : OptTimes,
     User : {Null} \cup UserIDs, Milestone : {Null} \cup MilestoneIDs,
     Labels : SUBSET LabelIDs, Assignees : SUBSET UserIDs]

\* In how many aspects issue i differs from the plain issue of its id.
DocVary(i) ==
    B2N(i.Number # i.ID) + B2N(i.Title # "a") + B2N(i.ClosedAt # Null)
    + B2N(i.User # Null) + B2N(i.Milestone # Null)
    + B2N(i.Labels # {}) + B2N(i.Assignees # {})

\* The issues the calls are made with.
DocIssues == {i \in AllDocIssues : DocVary(i) <= 1}

\* The fields the bson encoding of issue i has: those tagged omitempty are
\* left out for a nil pointer and for an empty slice.
EncodedFields(i) ==
    {"_id", "number", "title"}
    \cup (IF i.ClosedAt # Null THEN {"closed_at"} ELSE {})
    \cup (IF i.User # Null THEN {"user"} ELSE {})
    \cup (IF i.Milestone # Null THEN {"milestone"} ELSE {})
    \cup (IF i.Labels # {} THEN {"labels"} ELSE {})
    \cup (IF i.Assignees # {} THEN {"assignees"} ELSE {})

\* An encoding that writes every field, an unset one as the null value.
EncodeAll(i) ==
    [k \in {"_id", "number", "title", "closed_at", "user", "milestone",
            "labels", "assignees"} |->
        CASE k = "_id" -> i.ID
          [] k = "number" -> i.Number
          [] k = "title" -> i.Title
          [] k = "closed_at" -> i.ClosedAt
          [] k = "user" -> i.User
          [] k = "milestone" -> i.Milestone
          [] k = "labels" -> i.Labels
          [] k = "assignees" -> i.Assignees]

\* The bson encoding of issue i by its struct tags.
Encode(i) == [k \in EncodedFields(i) |-> EncodeAll(i)[k]]

\* Decode(&issue) into a zero Issue: a field the document lacks stays nil.
Decode(doc) ==
    [ID |-> doc["_id"], Number |-> doc["number"], Title |-> doc["title"],
     ClosedAt |-> IF "closed_at" \in DOMAIN doc THEN doc["closed_at"] ELSE Null,
     User |-> IF "user" \in DOMAIN doc THEN doc["user"] ELSE Null,
     Milestone |-> IF "milestone" \in DOMAIN doc THEN doc["milestone"] ELSE Null,
     Labels |-> IF "labels" \in DOMAIN doc THEN doc["labels"] ELSE {},
     Assignees |-> IF "assignees" \in DOMAIN doc THEN doc["assignees"] ELSE {}]

\* The documents of collection c with _id = id.
DocsByID(c, id) == {d \in c.docs : d["_id"] = id}

\* {$set: fields} applied to document doc: the fields named are overwritten
\* or added, the others stay.
SetFields(doc, fields) ==
    [k \in DOMAIN doc \cup DOMAIN fields |->
        IF k \in DOMAIN fields THEN fields[k] ELSE doc[k]]

\* The unique index on number rejects document doc put in place of the
\* documents old.
DuplicateNumber(c, old, doc) ==
    c.uniqueNumber /\ \E d \in c.docs \ old : d["number"] = doc["number"]

\* The result of an IssueDAO call: the collection afterwards and the error.
DocResult(c, e, cs) == [coll |-> c, err |-> e, cause |-> cs]

\* IssueDAO.Create: InsertOne.
Create(c, i, fault) ==
    IF fault.kind = "save" THEN DocResult(c, "create", "io")
    ELSE IF DocsByID(c, i.ID) # {} \/ DuplicateNumber(c, {}, Encode(i))
    THEN DocResult(c, "create", "duplicate")
    ELSE DocResult([c EXCEPT !.docs = @ \cup {Encode(i)}], "nil", "none")

\* IssueDAO.Upsert: UpdateOne with filter {_id}, update {$set: issue} and
\* upsert set: the matched document gets the encoded fields; with no match
\* a document of the filter's _id and those fields is inserted.
Upsert(c, i, fault) ==
    IF fault.kind = "save" THEN DocResult(c, "upsert", "io")
    ELSE LET old == DocsByID(c, i.ID)
             new == IF old = {} THEN Encode(i)
                    ELSE SetFields(CHOOSE d \in old : TRUE, Encode(i))
         IN  IF DuplicateNumber(c, old, new)
             THEN DocResult(c, "upsert", "duplicate")
             ELSE DocResult([c EXCEPT !.docs = (@ \ old) \cup {new}], "nil", "none")

\* An update that inserts the document when no document has the _id.
UpdateOrInsert(c, i, fault) ==
    IF fault.kind = "save" THEN DocResult(c, "update", "io")
    ELSE LET old == DocsByID(c, i.ID)
             new == IF old = {} THEN Encode(i)
                    ELSE SetFields(CHOOSE d \in old : TRUE, Encode(i))
         IN  IF DuplicateNumber(c, old, new)
             THEN DocResult(c, "update", "duplicate")
             ELSE DocResult([c EXCEPT !.docs = (@ \ old) \cup {new}], "nil", "none")

\* IssueDAO.Update: UpdateOne with filter {_id} and update {$set: issue},
\* without upsert; MatchedCount = 0 is reported as not found.
Update(c, i, fault) ==
    IF fault.kind = "save" THEN DocResult(c, "update", "io")
    ELSE LET old == DocsByID(c, i.ID)
         IN  IF old = {}
             THEN DocResult(c, "update", "notfound")
             ELSE LET new == SetFields(CHOOSE d \in old : TRUE, Encode(i))
                  IN  IF DuplicateNumber(c, old, new)
                      THEN DocResult(c, "update", "duplicate")
                      ELSE DocResult([c EXCEPT !.docs = (@ \ old) \cup {new}], "nil", "none")

\* IssueDAO.Delete: DeleteOne with filter {_id}; DeletedCount = 0 is reported
\* as not found.
Delete(c, id, fault) ==
    IF fault.kind = "save" THEN DocResult(c, "delete", "io")
    ELSE IF DocsByID(c, id) = {}
    THEN DocResult(c, "delete", "notfound")
    ELSE DocResult([c EXCEPT !.docs = @ \ DocsByID(c, id)], "nil", "none")

\* IssueDAO.FindByID: FindOne and Decode.
FindByID(c, id) ==
    IF DocsByID(c, id) = {} THEN [err |-> "notfound", model |-> <<>>]
    ELSE [err |-> "nil", model |-> <<Decode(CHOOSE d \in DocsByID(c, id) : TRUE)>>]

\* IssueDAO.CreateIndexes: the unique index on number is built unless two
\* documents share a number.
CreateIndexes(c, fault) ==
    IF fault.kind = "save" THEN DocResult(c, "indexes", "io")
    ELSE IF \E d1, d2 \in c.docs : d1 # d2 /\ d1["number"] = d2["number"]
    THEN DocResult(c, "indexes", "duplicate")
    ELSE DocResult([c EXCEPT !.uniqueNumber = TRUE], "nil", "none")

\* A call of an IssueDAO operation.
DocCall(op, arg, fault, r, out) ==
    /\ nops < MaxOps
    /\ last.err = "nil"
    /\ last.op # "FindByID"
    /\ fault.kind # "none" => r.cause = "io"
    /\ nops' = nops + 1
    /\ pre' = coll
    /\ coll' = r.coll
    /\ last' = [NoCall EXCEPT !.op = op, !.arg = arg, !.fault = fault,
                              !.err = r.err, !.cause = r.cause, !.out = out]
    /\ UNCHANGED <<db, gh, callers, client, repoService>>

DoCreate ==
    \E i \in DocIssues, f \in SaveFaults :
        DocCall("Create", i, f, Create(coll, i, f), <<>>)

DoUpsert ==
    \E i \in DocIssues, f \in SaveFaults :
        DocCall("Upsert", i, f, Upsert(coll, i, f), <<>>)

DoFindByID ==
    \E id \in IssueIDs :
        DocCall("FindByID", id, NoFault,
                DocResult(coll, FindByID(coll, id).err, "none"),
                FindByID(coll, id).model)

DoCreateIndexes ==
    \E f \in SaveFaults :
        DocCall("CreateIndexes", <<>>, f, CreateIndexes(coll, f), <<>>)

DoUpdate ==
    \E i \in DocIssues, f \in SaveFaults :
        DocCall("Update", i, f, Update(coll, i, f), <<>>)

DoDelete ==
    \E id \in IssueIDs, f \in SaveFaults :
        DocCall("Delete", id, f, Delete(coll, id, f), <<>>)

NextDocs ==
    \/ DoCreate
    \/ DoUpsert
    \/ DoUpdate
    \/ DoDelete
    \/ DoFindByID
    \/ DoCreateIndexes

SpecDocs == Init /\ [][NextDocs]_vars

\* C27: IssueDAO.Upsert updates an existing issue and creates an absent one:
\* after Upsert(issue) succeeds exactly one document has _id = issue.ID and
\* FindByID(issue.ID) returns an issue equal to the one passed, its unset
\* optional fields (ClosedAt, Milestone, User, Labels, Assignees) unset.
C27_DocUpsertStoresIssue ==
    (last.op = "Upsert" /\ last.err = "nil") =>
        /\ Cardinality(DocsByID(coll, last.arg.ID)) = 1
        /\ FindByID(coll, last.arg.ID) = [err |-> "nil", model |-> <<last.arg>>]

\* ------------------------------------------------- the cursor of a full fetch

\* The list request that follows list request i in a log, if any.
NextRequest(log, i) ==
    {j \in ListRequests(log) : j > i /\ \A k \in ListRequests(log) : k > i => k >= j}

\* C28: termination on a no-next-page signal: in a run of
\* FetchAndStoreAllIssues, a list request that returned a non-empty page with
\* next-page token 0 is the last list request of the run, its page is handed
\* to persistIssues, and the run succeeds unless a call of that persist
\* failed; the first list request has the unset cursor, and each later one
\* the token returned with the page before it.
C28_StopsOnTokenZero ==
    last.op = "FetchAndStoreAllIssues" =>
        /\ \A i \in ListRequests(last.log) :
             LET lr == ListByRepo(gh, last.log[i].arg)
             IN  /\ (last.log[i].ok /\ Len(lr.issues) > 0 /\ lr.next = 0) =>
                      /\ \A j \in ListRequests(last.log) : j <= i
                      /\ Len(last.log) > i
                      /\ (\A k \in DOMAIN last.log : last.log[k].ok) =>
                           /\ last.err = "nil"
                           /\ Committed(last.log, i)
                 /\ \A j \in NextRequest(last.log, i) :
                      /\ lr.next # 0
                      /\ last.log[j].arg = lr.next
        /\ \A i \in ListRequests(last.log) :
             (\A j \in ListRequests(last.log) : j >= i) => last.log[i].arg = 0

\* C28 witness: three pages, the third with token 0: three list requests, all
\* six issues stored, success.
C28_Witness ==
    /\ last.op = "FetchAndStoreAllIssues"
    /\ last.err = "nil"
    /\ ~gh.tail
    /\ gh.pages = 3
    /\ Fetches(last.log) = 3
    /\ pre.issues = EmptyBag
    /\ BagCardinality(db.issues) = 6

\* ------------------------------------------------ the order within a persist

\* The raw issues that the fetch of event i of the last run returned.
Fetched(i) ==
    IF last.log[i].ev = "ListByRepo"
    THEN ListByRepo(gh, last.log[i].arg).issues
    ELSE <<gh.issues[CHOOSE k \in GetIssue(gh, last.log[i].arg) : TRUE]>>

\* The fetch whose issues the batch write of event j persists: the last
\* fetch before it.
FetchBefore(j) ==
    CHOOSE i \in 1..(j - 1) :
        /\ last.log[i].ev \in {"ListByRepo", "GetIssue"}
        /\ \A k \in (i + 1)..(j - 1) : last.log[k].ev \notin {"ListByRepo", "GetIssue"}

\* C29: supporting entities are written before the issue batch: each
\* BatchCreateIssues call of a run comes after the upserts of the creator,
\* the assignees, the labels and the milestone of every issue of its page,
\* all of them successful, with no other call in between; so every user,
\* label and milestone the page's issues name has its row (the run deletes
\* none, so it has it when the batch write is made).
C29_SupportBeforeBatch ==
    (IsFetch \/ IsSync) =>
        \A j \in DOMAIN last.log :
            last.log[j].ev = "BatchCreateIssues" =>
                LET i == FetchBefore(j)
                    calls == AllSupportCalls(Fetched(i))
                IN  /\ j = i + Len(calls) + 1
                    /\ \A k \in 1..Len(calls) :
                         /\ last.log[i + k].ev = calls[k].kind
                         /\ last.log[i + k].arg = calls[k].model.ID
                         /\ last.log[i + k].ok
                    /\ \A n \in DOMAIN Fetched(i) :
                         LET m == convertGitHubIssueToModel(Fetched(i)[n])
                         IN  /\ ~MissingReference(db, m)
                             /\ m.MilestoneID # Null =>
                                  RowsByID(db.milestones, m.MilestoneID) # {}

\* C29 witness: a full fetch of issues with a milestone on an empty store:
\* the milestone was upserted, then the batch stored the issues with the link.
C29_Witness ==
    /\ last.op = "FetchAndStoreAllIssues"
    /\ last.err = "nil"
    /\ gh.pages >= 1
    /\ pre.milestones = EmptyBag
    /\ HasOne(db.milestones, 1)
    /\ \E r \in BagToSet(db.issues) : r.MilestoneID = 1

\* ------------------------------------------------------ one page in flight

\* The pages fetched in log events 1 .. n and not yet handed back by a
\* persist: non-empty list results less batch writes returned.
InFlight(log, n) ==
    Cardinality({i \in 1..n : log[i].ev = "ListByRepo" /\ log[i].ok
                               /\ Len(ListByRepo(gh, log[i].arg).issues) > 0})
    - Cardinality({i \in 1..n : log[i].ev = "BatchCreateIssues"})

\* C30: pages are processed strictly in sequence within a run of
\* FetchAndStoreAllIssues: a list request other than the first is made only
\* after the persist of the page before it returned success (its supporting
\* upserts and its batch write all succeeded, and nothing else lies between
\* the two requests), and at every point of the run at most one page is
\* fetched and not yet persisted.
C30_PagesInSequence ==
    last.op = "FetchAndStoreAllIssues" =>
        /\ \A i \in ListRequests(last.log) : \A j \in NextRequest(last.log, i) :
             /\ last.log[j - 1].ev = "BatchCreateIssues"
             /\ Cardinality({k \in i..j : last.log[k].ev = "BatchCreateIssues"}) = 1
             /\ \A k \in i..(j - 1) : last.log[k].ok
             /\ j = i + Len(AllSupportCalls(Fetched(i))) + 2
        /\ \A n \in DOMAIN last.log : InFlight(last.log, n) \in {0, 1}

\* C30 witness: a run over three pages that made its third list request
\* after two batch writes, each following its page's list request.
C30_Witness ==
    /\ last.op = "FetchAndStoreAllIssues"
    /\ gh.pages = 3
    /\ Fetches(last.log) >= 3
    /\ \E i, j \in DOMAIN last.log :
         /\ i < j
         /\ last.log[i].ev = "BatchCreateIssues"
         /\ last.log[j].ev = "BatchCreateIssues"
         /\ \E k \in (i + 1)..(j - 1) : last.log[k].ev = "ListByRepo"

\* ---------------------------------------------------------------------------
\* Transactions of the issue writes
\* ---------------------------------------------------------------------------

TxOps == {"CreateIssue", "BatchCreateIssues"}

\* C31: no transaction is left open.  A call of CreateIssue or
\* BatchCreateIssues that opened its transaction returns with it committed
\* (exactly on success) or ended otherwise: rolled back on the error of a
\* milestone lookup, on the error of a save and on a panic, leaving the
\* database as it was, and closed by the failed commit on a commit error.  A
\* call whose transaction could not be opened has none.
C31_NoTransactionLeftOpen ==
    last.op \in TxOps =>
        /\ last.tx # "open"
        /\ (last.tx = "none") = (last.fault.kind = "begin")
        /\ (last.tx = "committed") = (last.err = "nil")
        /\ last.err \in {"query", "create", "panic"} => last.tx = "rolledback"
        /\ last.err = "commit" => last.tx = "ended"
        /\ last.tx \in {"rolledback", "ended"} => db = pre

\* A batch whose second issue made the call fail after the first was saved,
\* by a panic or by a failing save, in a database that held issues already.
C31_Witness ==
    /\ last.op = "BatchCreateIssues"
    /\ Len(last.arg) = 2
    /\ last.fault \in {Fault("panic", 2), Fault("save", 2)}
    /\ last.tx = "rolledback"
    /\ pre.issues # EmptyBag

\* ---------------------------------------------------------------------------
\* Round trip of an issue with its associations
\* ---------------------------------------------------------------------------

\* The creator, the milestone, the labels and the assignees of m are stored.
AssociationsStored(d, m) ==
    /\ m.UserID # NoID => HasOne(d.users, m.UserID)
    /\ m.MilestoneID # Null => HasOne(d.milestones, m.MilestoneID)
    /\ \A l \in m.Labels : HasOne(d.labels, l)
    /\ \A a \in m.Assignees : HasOne(d.users, a)

\* GetIssueByID and every unfiltered, unpaged ListIssues give m back: scalar
\* fields, creator id, milestone id, label ids and assignee ids.
ReadBackByID(d, m) ==
    /\ GetIssueByID(d, m.ID) = [err |-> "nil", model |-> <<m>>]
    /\ \A ord \in Orders(BagToSet(d.issues)) :
         LET listed == ListIssues(d, [Offset |-> 0, Limit |-> 0, State |-> ""], ord)
         IN  /\ listed.err = "nil"
             /\ \E i \in DOMAIN listed.model : listed.model[i] = m
             /\ \A i \in DOMAIN listed.model : listed.model[i].ID = m.ID => listed.model[i] = m

\* GetIssueByNumber gives m back.
ReadBackByNumber(d, m) ==
    GetIssueByNumber(d, m.Number) = [err |-> "nil", model |-> <<m>>]

\* C32: write/read round trip with associations: after a successful
\* CreateIssue(m) whose creator, milestone, labels and assignees were all
\* stored, GetIssueByID(m.ID), GetIssueByNumber(m.Number) and the entry of
\* ListIssues for m each return the scalar fields, the creator id, the
\* milestone id, the label ids and the assignee ids of m.
C32_RoundTrip ==
    (/\ last.op = "CreateIssue"
     /\ last.err = "nil"
     /\ AssociationsStored(pre, last.arg)) =>
        /\ ReadBackByID(db, last.arg)
        /\ ReadBackByNumber(db, last.arg)

\* ---------------------------------------------------------------------------
\* Normalisation of a remote repository
\* ---------------------------------------------------------------------------

\* The remote repository records the conversion is applied to.
RawRepos ==
    [ID : {1}, Name : {"", "r"},
     Owner : {<<>>, <<[Login |-> ""]>>, <<[Login |-> "o"]>>},
     FullName : {"", "o/r", "x/y"}, DefaultBranch : {"", "main", "dev"},
     PushedAt : OptTimes]

InitRepo ==
    /\ db = EmptyDB
    /\ pre = EmptyDB
    /\ last = NoCall
    /\ nops = 0
    /\ gh \in {[NoRemote EXCEPT !.repo = r] : r \in RawRepos}
    /\ callers = NoCallers
    /\ client = "open"
    /\ coll = EmptyColl
    /\ repoService = NewRepoService

\* One call of convertGitHubRepositoryToModel on the remote repository.
DoConvertRepository ==
    /\ nops = 0
    /\ nops' = 1
    /\ last' = [NoCall EXCEPT !.op = "convertGitHubRepositoryToModel",
                              !.arg = gh.repo,
                              !.out = <<convertGitHubRepositoryToModel(gh.repo)>>]
    /\ UNCHANGED <<db, pre, gh, callers, client, coll, repoService>>

NextRepo == DoConvertRepository
SpecRepo == InitRepo /\ [][NextRepo]_vars

C34_ErrorNamesPage ==
    (last.op = "FetchAndStoreAllIssues" /\ last.err \in {"fetch", "persist"}) =>
        last.page = Fetches(last.log)

\* ------------------------------------------- what a failed persist leaves

SupportEvents == {"UpsertUser", "UpsertLabel", "UpsertMilestone"}
TableOf(d, ev) ==
    CASE ev = "UpsertUser" -> d.users
      [] ev = "UpsertLabel" -> d.labels
      [] ev = "UpsertMilestone" -> d.milestones

\* The last call of the last run failed and was a call of persistIssues.
PersistFailed ==
    /\ IsFetch \/ IsSync
    /\ last.err # "nil"
    /\ last.log # <<>>
    /\ last.log[Len(last.log)].ev \in SupportEvents \cup {"BatchCreateIssues"}

\* C35: supporting-entity writes are outside the page transaction: when
\* persistIssues fails, in a later supporting upsert or in BatchCreateIssues,
\* every user, label and milestone upsert that had succeeded for that page
\* has its row stored after the run; the rows and links of the page's issues
\* are what they were before the run.
C35_SupportingWritesStay ==
    PersistFailed =>
        LET n == Len(last.log)
            f == FetchBefore(n)
            ids == {Fetched(f)[k].ID : k \in DOMAIN Fetched(f)}
        IN  /\ \A i \in (f + 1)..(n - 1) :
                 /\ last.log[i].ev \in SupportEvents
                 /\ last.log[i].ok
                 /\ HasOne(TableOf(db, last.log[i].ev), last.log[i].arg)
            /\ IssueRowsOf(db, ids) = IssueRowsOf(pre, ids)

\* C35 witness: on a store without labels the batch write of a page failed
\* after the page's label was upserted; the label is stored, the issues are
\* not.
C35_Witness ==
    /\ PersistFailed
    /\ last.log[Len(last.log)].ev = "BatchCreateIssues"
    /\ pre.labels = EmptyBag
    /\ db.labels # EmptyBag
    /\ \E i \in DOMAIN last.log : last.log[i].ev = "UpsertLabel"
    /\ db.issues = pre.issues

\* ---------------------------------------------------------------------------
\* The frame of UpdateIssue
\* ---------------------------------------------------------------------------

\* C36: UpdateIssue changes only the issue's own row.  A successful call
\* found one row of the id; afterwards that row carries the model's number,
\* title and state, its closed-at and its milestone reference are those of
\* the model (set when present, cleared when absent), its created-at is what
\* it was, and the label links, the assignee links and every other stored
\* row are what they were.  When no issue has the id the call returns an
\* error and the database is unchanged.
C36_UpdateChangesOwnRow ==
    last.op = "UpdateIssue" =>
        LET m == last.arg
        IN  /\ last.err = "nil" =>
                 /\ HasOne(pre.issues, m.ID)
                 /\ HasOne(db.issues, m.ID)
                 /\ LET old == TheRow(pre.issues, m.ID)
                        new == TheRow(db.issues, m.ID)
                    IN  /\ new.Number = m.Number
                        /\ new.Title = m.Title
                        /\ new.State = m.State
                        /\ new.ClosedAt = m.ClosedAt
                        /\ new.MilestoneID = m.MilestoneID
                        /\ new.CreatedAt = old.CreatedAt
                        /\ db.issues = UpdateByID(pre.issues, m.ID, new)
                 /\ db.issue_labels = pre.issue_labels
                 /\ db.issue_assignees = pre.issue_assignees
                 /\ db.users = pre.users
                 /\ db.labels = pre.labels
                 /\ db.milestones = pre.milestones
                 /\ db.repos = pre.repos
            /\ RowsByID(pre.issues, m.ID) = {} => (last.err # "nil" /\ db = pre)

\* C36 witness: an update with another created-at, no labels and no milestone
\* succeeded on an issue stored with a label.
C36_Witness ==
    /\ last.op = "UpdateIssue"
    /\ last.err = "nil"
    /\ last.arg.CreatedAt # TheRow(db.issues, last.arg.ID).CreatedAt
    /\ last.arg.Labels = {}
    /\ LabelsOf(db, last.arg.ID) # {}

\* ---------------------------------------------------------------------------
\* The in-memory RepoService
\* ---------------------------------------------------------------------------

\* commv1.Repo, and the requests of the five calls.  A request without repo
\* has Repo = <<>>.
RepoIDs == {"", "a", "b"}
RepoNames == {"x", "y"}
Repos == [Id : RepoIDs, Name : RepoNames]
RepoOps == {"CreateRepo", "GetRepo", "UpdateRepo", "DeleteRepo", "ListRepos"}
WriteOps == {"CreateRepo", "UpdateRepo", "DeleteRepo"}
RepoRequests(op) ==
    CASE op \in {"CreateRepo", "UpdateRepo"} -> [Repo : {<<>>} \cup {<<r>> : r \in Repos}]
      [] op \in {"GetRepo", "DeleteRepo"} -> [Id : RepoIDs]
      [] op = "ListRepos" -> [Page : {0}, PageSize : {0, 1}]

\* The checks a call makes on its request before it takes the lock.
Validate(op, req) ==
    CASE op \in {"CreateRepo", "UpdateRepo"} ->
             IF req.Repo = <<>> THEN "repo is required"
             ELSE IF req.Repo[1].Id = "" THEN "repo id is required"
             ELSE "nil"
      [] op \in {"GetRepo", "DeleteRepo"} ->
             IF req.Id = "" THEN "repo id is required" ELSE "nil"
      [] op = "ListRepos" -> "nil"

\* The id a request names.
IdOf(op, req) ==
    CASE op \in {"CreateRepo", "UpdateRepo"} -> req.Repo[1].Id
      [] op \in {"GetRepo", "DeleteRepo"} -> req.Id
      [] op = "ListRepos" -> ""

\* s.repos[id] = repo and delete(s.repos, id).
Put(repos, id, repo) ==
    [k \in DOMAIN repos \cup {id} |-> IF k = id THEN repo ELSE repos[k]]
Remove(repos, id) == [k \in DOMAIN repos \ {id} |-> repos[k]]

RepoResult(repos, e, out) == [repos |-> repos, err |-> e, out |-> out]

\* A create that stores the repo whether or not the id is registered.
CreateRepoOverwriting(repos, req, exists) ==
    RepoResult(Put(repos, req.Repo[1].Id, req.Repo[1]), "nil", <<req.Repo[1]>>)

\* RepoService.CreateRepo under the lock, exists being what its lookup found.
CreateRepo(repos, req, exists) ==
    IF exists
    THEN RepoResult(repos, "already exists", <<>>)
    ELSE RepoResult(Put(repos, req.Repo[1].Id, req.Repo[1]), "nil", <<req.Repo[1]>>)

\* RepoService.UpdateRepo under the lock.
UpdateRepo(repos, req, exists) ==
    IF ~exists
    THEN RepoResult(repos, "not found", <<>>)
    ELSE RepoResult(Put(repos, req.Repo[1].Id, req.Repo[1]), "nil", <<req.Repo[1]>>)

\* RepoService.DeleteRepo under the lock.
DeleteRepo(repos, req, exists) ==
    IF ~exists
    THEN RepoResult(repos, "not found", <<>>)
    ELSE RepoResult(Remove(repos, req.Id), "nil", <<>>)

\* RepoService.GetRepo under the read lock.
GetRepo(repos, req) ==
    IF req.Id \notin DOMAIN repos
    THEN RepoResult(repos, "not found", <<>>)
    ELSE RepoResult(repos, "nil", <<repos[req.Id]>>)

\* int32 arithmetic: a product wraps around.  Mul32(a, b) is a * b in 32 bits
\* for a, b >= 0, computed on 16-bit halves so that no intermediate result
\* leaves the 32-bit range: the low half of the product comes from the low
\* halves, the high half from the cross terms and the carry.
MaxInt32 == 2147483647
MinInt32 == -MaxInt32 - 1
Mul32(a, b) ==
    LET aH == a \div 65536
        aL == a % 65536
        bH == b \div 65536
        bL == b % 65536
        u == aL * (bL % 256)
        v == aL * (bL \div 256)
        low == u + (v % 256) * 256
        carry == (low \div 65536) + (v \div 256)
        hi == ((carry % 65536) + ((aH * bL) % 65536) + ((aL * bH) % 65536)) % 65536
        lo == low % 65536
    IN  IF hi >= 32768 THEN (hi - 65536) * 65536 + lo ELSE hi * 65536 + lo

\* The orders in which a range over the map can visit its keys.
MapOrders(repos) ==
    {ord \in [1..Cardinality(DOMAIN repos) -> DOMAIN repos] :
        \A k \in DOMAIN repos : \E i \in DOMAIN ord : ord[i] = k}

\* RepoService.ListRepos under the read lock, the range over the map visiting
\* the keys in order ord.  A slice expression with a negative start or an end
\* before its start panics.
ListRepos(repos, req, ord) ==
    LET all == [i \in DOMAIN ord |-> repos[ord[i]]]
        page == IF req.Page < 1 THEN 1 ELSE req.Page
        pageSize == IF req.PageSize < 1 THEN 10 ELSE req.PageSize
        start == Mul32(page - 1, pageSize)
        end == Mul32(page, pageSize)
    IN  IF start >= Len(all)
        THEN RepoResult(repos, "nil", <<[Repos |-> <<>>, Total |-> Len(all)]>>)
        ELSE LET e == IF end > Len(all) THEN Len(all) ELSE end
             IN  IF start < 0 \/ e < start
                 THEN RepoResult(repos, "panic", <<>>)
                 ELSE RepoResult(repos, "nil",
                                 <<[Repos |-> SubSeq(all, start + 1, e), Total |-> Len(all)]>>)

\* The body of a writing call under the lock.
Locked(op, repos, req, exists) ==
    CASE op = "CreateRepo" -> CreateRepo(repos, req, exists)
      [] op = "UpdateRepo" -> UpdateRepo(repos, req, exists)
      [] op = "DeleteRepo" -> DeleteRepo(repos, req, exists)

\* sync.RWMutex: Lock waits until nobody holds the lock, RLock until no
\* writer holds it.
NeverWaits(mu) == TRUE
CanLock(mu) == mu.writer = 0 /\ mu.readers = {}
CanRLock(mu) == mu.writer = 0

\* The goroutines that call the service, and the calls they may make in all.
RepoCallers == {1, 2}
MaxCalls == 3
NotCalling == [pc |-> "idle", op |-> "none", arg |-> <<>>, found |-> FALSE,
               err |-> "nil", out |-> <<>>]

InitRepoService ==
    /\ db = EmptyDB
    /\ pre = EmptyDB
    /\ last = NoCall
    /\ nops = 0
    /\ gh = NoRemote
    /\ callers = [c \in RepoCallers |-> NotCalling]
    /\ client = "open"
    /\ coll = EmptyColl
    /\ repoService = NewRepoService

\* Caller c enters a call: the request is checked; a request that fails the
\* check returns at once.
Enter(c) ==
    /\ callers[c].pc \in {"idle", "done"}
    /\ nops < MaxCalls
    /\ nops' = nops + 1
    /\ \E op \in RepoOps : \E req \in RepoRequests(op) :
         callers' = [callers EXCEPT ![c] =
                        [NotCalling EXCEPT !.op = op, !.arg = req,
                                           !.err = Validate(op, req),
                                           !.pc = IF Validate(op, req) = "nil"
                                                  THEN "waiting" ELSE "done"]]
    /\ UNCHANGED <<db, pre, last, gh, client, coll, repoService>>

\* s.mu.Lock() of a writing call, s.mu.RLock() of a reading one.
MuLock(c) ==
    /\ callers[c].pc = "waiting"
    /\ IF callers[c].op \in WriteOps
       THEN /\ CanLock(repoService.mu)
            /\ repoService' = [repoService EXCEPT !.mu.writer = c]
       ELSE /\ CanRLock(repoService.mu)
            /\ repoService' = [repoService EXCEPT !.mu.readers = @ \cup {c}]
    /\ callers' = [callers EXCEPT ![c].pc = "locked"]
    /\ UNCHANGED <<db, pre, last, nops, gh, client, coll>>

\* The lookup of a writing call: _, exists := s.repos[id].
Exists(c) ==
    /\ callers[c].pc = "locked"
    /\ callers[c].op \in WriteOps
    /\ callers' = [callers EXCEPT
                      ![c].pc = "looked",
                      ![c].found = IdOf(callers[c].op, callers[c].arg) \in DOMAIN repoService.repos]
    /\ UNCHANGED <<db, pre, last, nops, gh, client, coll, repoService>>

\* What a writing call does after its lookup: the error return, or the write
\* to the map.
Act(c) ==
    /\ callers[c].pc = "looked"
    /\ LET r == Locked(callers[c].op, repoService.repos, callers[c].arg, callers[c].found)
       IN  /\ repoService' = [repoService EXCEPT !.repos = r.repos]
           /\ callers' = [callers EXCEPT ![c].pc = "acted", ![c].err = r.err,
                                         ![c].out = r.out]
    /\ UNCHANGED <<db, pre, last, nops, gh, client, coll>>

\* The body of a reading call.
ReadRepos(c) ==
    /\ callers[c].pc = "locked"
    /\ callers[c].op \notin WriteOps
    /\ \E ord \in MapOrders(repoService.repos) :
         LET r == IF callers[c].op = "GetRepo"
                  THEN GetRepo(repoService.repos, callers[c].arg)
                  ELSE ListRepos(repoService.repos, callers[c].arg, ord)
         IN  callers' = [callers EXCEPT ![c].pc = "acted", ![c].err = r.err,
                                        ![c].out = r.out]
    /\ UNCHANGED <<db, pre, last, nops, gh, client, coll, repoService>>

\* The deferred s.mu.Unlock() / s.mu.RUnlock(), and the return.
MuUnlock(c) ==
    /\ callers[c].pc = "acted"
    /\ repoService' = [repoService EXCEPT
                          !.mu.writer = IF @ = c THEN 0 ELSE @,
                          !.mu.readers = @ \ {c}]
    /\ callers' = [callers EXCEPT ![c].pc = "done"]
    /\ UNCHANGED <<db, pre, last, nops, gh, client, coll>>

NextRepoService ==
    \E c \in RepoCallers :
        Enter(c) \/ MuLock(c) \/ Exists(c) \/ Act(c) \/ ReadRepos(c) \/ MuUnlock(c)
SpecRepoService == InitRepoService /\ [][NextRepoService]_vars

\* The request of call record k is missing its repo or its id.
Rejected(k) == k.op \in RepoOps /\ Validate(k.op, k.arg) # "nil"

\* C37: the in-memory RepoService rejects invalid operations without changing
\* state.  A request with a missing repo or an empty id fails before the
\* registry is looked at; CreateRepo with a registered id fails and the
\* stored repo stays; UpdateRepo and DeleteRepo with an id that is not
\* registered fail; a call that fails leaves the registry map as it was; a
\* successful UpdateRepo puts the request's repo in place of the stored one
\* and changes no other entry.
C37_RejectsWithoutChange ==
    [][\A c \in RepoCallers :
         LET reg == repoService.repos
             regAfter == repoService'.repos
             k == callers'[c]
         IN  /\ Rejected(k) => (k.pc = "done" /\ k.err # "nil")
             /\ (k # callers[c] /\ k.err # "nil") => regAfter = reg
             /\ (callers[c].pc = "looked" /\ k.pc = "acted") =>
                  LET id == IdOf(k.op, k.arg)
                  IN  /\ (k.op = "CreateRepo" /\ id \in DOMAIN reg) =>
                           (k.err # "nil" /\ regAfter = reg)
                      /\ (k.op \in {"UpdateRepo", "DeleteRepo"} /\ id \notin DOMAIN reg) =>
                           (k.err # "nil" /\ regAfter = reg)
                      /\ (k.op = "UpdateRepo" /\ id \in DOMAIN reg) =>
                           /\ k.err = "nil"
                           /\ DOMAIN regAfter = DOMAIN reg
                           /\ regAfter[id] = k.arg.Repo[1]
                           /\ \A other \in DOMAIN reg \ {id} : regAfter[other] = reg[other]
      ]_vars

\* C37 witness: a CreateRepo of a registered id was refused and the registry
\* holds the repo stored before, not the one of the request; the other
\* caller's UpdateRepo of that id had replaced the stored value.
C37_Witness ==
    \E c, o \in RepoCallers :
        /\ callers[c].pc = "done"
        /\ callers[c].op = "CreateRepo"
        /\ callers[c].err = "already exists"
        /\ callers[o].pc = "done"
        /\ callers[o].op = "UpdateRepo"
        /\ callers[o].err = "nil"
        /\ repoService.repos[callers[c].arg.Repo[1].Id] = callers[o].arg.Repo[1]
        /\ callers[c].arg.Repo[1] # callers[o].arg.Repo[1]

\* Caller c is between its Lock (RLock) and its Unlock (RUnlock).
Inside(c) == callers[c].pc \in {"locked", "looked", "acted"}
Creating(c, id) ==
    /\ callers[c].op = "CreateRepo"
    /\ Validate("CreateRepo", callers[c].arg) = "nil"
    /\ callers[c].arg.Repo[1].Id = id

\* C38: the in-memory RepoService is linearizable under its lock.  In every
\* interleaving of the callers' steps a writing call is alone between its
\* Lock and its Unlock (readers may share), so what its lookup found is still
\* so when it acts and what it wrote is still there when it returns; and of
\* two CreateRepo calls with the same id on a registry without it, once both
\* returned, exactly one has succeeded and the stored value is its repo.
C38_AtomicUnderLock ==
    /\ \A c, o \in RepoCallers :
         (c # o /\ Inside(c) /\ callers[c].op \in WriteOps) => ~Inside(o)
    /\ \A c \in RepoCallers :
         LET k == callers[c]
             id == IdOf(k.op, k.arg)
         IN  /\ (k.pc = "looked") => (k.found = (id \in DOMAIN repoService.repos))
             /\ (k.pc = "acted" /\ k.op \in {"CreateRepo", "UpdateRepo"} /\ k.err = "nil") =>
                  (id \in DOMAIN repoService.repos /\ repoService.repos[id] = k.arg.Repo[1])
             /\ (k.pc = "acted" /\ k.op = "DeleteRepo" /\ k.err = "nil") =>
                  id \notin DOMAIN repoService.repos
    /\ \A id \in RepoIDs :
         (/\ nops = Cardinality(RepoCallers)
          /\ \A c \in RepoCallers : Creating(c, id) /\ callers[c].pc = "done") =>
             \E c \in RepoCallers :
                 /\ callers[c].err = "nil"
                 /\ repoService.repos[id] = callers[c].arg.Repo[1]
                 /\ \A o \in RepoCallers \ {c} : callers[o].err # "nil"

\* C38 witness: two CreateRepo calls of one id in progress at once: one holds
\* the lock and has stored its repo, the other, with another repo, waits for
\* the lock.
C38_Witness ==
    \E c, o \in RepoCallers :
        /\ Creating(c, "a") /\ Creating(o, "a")
        /\ callers[c].arg # callers[o].arg
        /\ callers[c].pc = "acted"
        /\ callers[c].err = "nil"
        /\ callers[o].pc = "waiting"

\* ---------------------------------------------------------------------------
\* Paging of ListRepos
\* ---------------------------------------------------------------------------

\* The page numbers and page sizes of the requests, over the whole int32
\* range, and the registries listed.
Pages == {MinInt32, -1, 0, 1, 2, 3, 65537, MaxInt32}
PageSizes == {MinInt32, -1, 0, 1, 2, 32768, 65536, MaxInt32}
ListReposRequests == [Page : Pages, PageSize : PageSizes]
Registries ==
    {[id \in ids |-> [Id |-> id, Name |-> "x"]] : ids \in SUBSET {"a", "b", "c"}}

InitPaging ==
    /\ db = EmptyDB
    /\ pre = EmptyDB
    /\ last = NoCall
    /\ nops = 0
    /\ gh = NoRemote
    /\ callers = NoCallers
    /\ client = "open"
    /\ coll = EmptyColl
    /\ repoService \in {[NewRepoService EXCEPT !.repos = reg] : reg \in Registries}

\* One call of ListRepos, nobody else calling.
DoListRepos ==
    /\ nops = 0
    /\ nops' = 1
    /\ \E req \in ListReposRequests : \E ord \in MapOrders(repoService.repos) :
         LET r == ListRepos(repoService.repos, req, ord)
         IN  last' = [NoCall EXCEPT !.op = "ListRepos", !.arg = req,
                                    !.err = r.err, !.out = r.out]
    /\ UNCHANGED <<db, pre, gh, callers, client, coll, repoService>>

NextPaging == DoListRepos
SpecPaging == InitPaging /\ [][NextPaging]_vars

\* (page - 1) * pageSize >= n for page >= 1 and pageSize >= 1, computed
\* without the product.
AtOrBeyond(page, pageSize, n) ==
    n = 0 \/ page - 1 >= ((n - 1) \div pageSize) + 1

\* C39: ListRepos paging is well-defined for every request: for all 32-bit
\* page and pageSize values the call returns normally, page < 1 counting as 1
\* and pageSize < 1 as 10; the returned slice holds at most pageSize repos,
\* all of them registered, is empty when (page-1)*pageSize is at or beyond
\* the number of registered repos, and Total is the number of registered
\* repos.
C39_PagingWellDefined ==
    last.op = "ListRepos" =>
        LET n == Cardinality(DOMAIN repoService.repos)
            page == IF last.arg.Page < 1 THEN 1 ELSE last.arg.Page
            pageSize == IF last.arg.PageSize < 1 THEN 10 ELSE last.arg.PageSize
        IN  /\ last.err = "nil"
            /\ LET resp == last.out[1]
               IN  /\ resp.Total = n
                   /\ Len(resp.Repos) <= pageSize
                   /\ \A i \in DOMAIN resp.Repos :
                        \E id \in DOMAIN repoService.repos : repoService.repos[id] = resp.Repos[i]
                   /\ AtOrBeyond(page, pageSize, n) => resp.Repos = <<>>

\* ---------------------------------------------------------------------------
\* Update and Delete of the document store
\* ---------------------------------------------------------------------------

\* C40: the document store's IssueDAO.Update and Delete never act on an
\* absent id: Update(issue) with no document of _id = issue.ID returns a
\* not-found error and creates no document, Delete(id) with no such document
\* returns a not-found error, and in both cases the collection is unchanged;
\* Delete of a present id removes exactly that document.
C40_AbsentIdNotActedOn ==
    /\ (last.op = "Update" /\ last.fault = NoFault /\ DocsByID(pre, last.arg.ID) = {}) =>
         (last.err = "update" /\ last.cause = "notfound" /\ coll = pre)
    /\ (last.op = "Delete" /\ last.fault = NoFault) =>
         IF DocsByID(pre, last.arg) = {}
         THEN last.err = "delete" /\ last.cause = "notfound" /\ coll = pre
         ELSE /\ last.err = "nil"
              /\ coll.docs = {d \in pre.docs : d["_id"] # last.arg}
              /\ Cardinality(coll.docs) = Cardinality(pre.docs) - 1
              /\ coll.uniqueNumber = pre.uniqueNumber

\* C40 witness: an Update of an id that is absent from a collection holding
\* another document was refused.
C40_Witness ==
    /\ last.op = "Update"
    /\ last.fault = NoFault
    /\ pre.docs # {}
    /\ DocsByID(pre, last.arg.ID) = {}
    /\ last.cause = "notfound"
    /\ coll = pre

====
